---- MODULE Spec2Model ----
(***************************************************************************)
(* Buffering / truncation / retry / flush subsystem of fluent-bit-go-gcs.  *)
(*                                                                         *)
(* The buffer content (bytes.Buffer) is a sequence of tokens.  A token is  *)
(* either the newline byte or a chunk of record bytes that contains no     *)
(* newline; a chunk carries its byte length, whether json.Unmarshal        *)
(* accepts it when it stands alone on a line, and the identity of the      *)
(* record it came from.  A truncation-metadata line is a chunk of its own  *)
(* kind carrying the two counters it is marshalled from.                   *)
(*                                                                         *)
(* Object keys are numbers: 0 is the empty string "", k > 0 is the k-th    *)
(* key returned by generateObjectKey (timestamp + fresh uuid).             *)
(***************************************************************************)
EXTENDS Integers, Sequences, FiniteSets, TLC

\* ---- bounds of the model ----
MaxBufferSizeBytes == 5      \* BufferConfig.MaxBufferSizeBytes
MaxLen == 2                  \* longest valid JSON record, in bytes
MaxBadLen == 1               \* longest record that is not JSON, in bytes
MetaLen == 2                 \* byte length of a marshalled TruncationMetadata
MaxRecords == 3              \* records handed to PluginContext in one run
MaxBufferRecords == 4        \* records handed to a bare BufferManager in one run
MaxKeys == 2                 \* object keys generated in one run
maxRetryCount == 2           \* RetryManager.maxRetryCount
FlushTimeoutSec == 2         \* BufferConfig.FlushTimeoutSec, in clock ticks
MaxTime == 3                 \* clock ticks in one run
MaxTimedRecords == 2         \* AddRecord calls in one run of the timed BufferManager
TruncateCeiling == 8         \* MaxBufferSizeBytes of the managers truncateByLine is run on
MaxSeedLines == 3            \* records in a buffer truncateByLine is run on
MaxTriggerRecords == 2       \* records buffered when FlushIfNeeded is called
MaxKeywords == 2             \* keywords one error message contains
MaxInitialBackoff == 3       \* largest ExponentialBackoff.initialBackoff, in ticks
MaxBackoffCeiling == 4       \* largest ExponentialBackoff.maxBackoff, in ticks
FactorDen == 2               \* ExponentialBackoff.factor is num / FactorDen
MaxFactorNum == 4            \* largest num of a factor
MaxAttempts == 3             \* largest retryCount handed to NextBackoff
MaxPluginRecords == 4        \* records handed to FluentBitPlugin.processRecord
bufferSize == 4               \* Output_Buffer_Size of out_gcs.go, in bytes
Minute == 2                   \* time.Minute, in clock ticks
MaxDeliveries == 3            \* FLBPluginFlushCtx calls of one run
MaxLegacyRetries == 3         \* largest RetryCount a seeded legacy context holds
MaxCalls == 3                \* calls the goroutines make in one run

VARIABLES
    config,         \* BufferConfig
    bufferManager,  \* BufferManager: buffer (tokens), currentSize, lastFlushTime
    retryManager,   \* RetryManager: retryCount, objectKey, isRetrying
    keyCounter,     \* number of keys generateObjectKey has returned
    nextId,         \* identity of the next record handed to the program
    cycle,          \* history: keys, Write calls and first snapshot of the flush cycle
    discarded,      \* history: records discarded by a non-retryable error
    lastOp,         \* the last call made, its inputs and what it returned
    now,            \* time.Now(), in clock ticks
    flushed,        \* the slice the last direct caller of Flush holds
    plugin,         \* FluentBitPlugin: lastFlushTime
    threads,        \* the goroutines inside a call: position and locals of each
    mutex,          \* the goroutine holding each sync.Mutex, 0 when unlocked
    legacy          \* the PluginContext of out_gcs.go and the chunk its host delivers

hostVars == <<plugin, threads, mutex, legacy>>

vars == <<config, bufferManager, retryManager, keyCounter, nextId, cycle,
          discarded, lastOp, now, flushed, plugin, threads, mutex, legacy>>

\* ---- bytes ----
NL == [t |-> "nl", id |-> 0, len |-> 1, valid |-> FALSE, dropped |-> 0, retained |-> 0]

Chunk(id, len, valid) ==
    [t |-> "rec", id |-> id, len |-> len, valid |-> valid, dropped |-> 0, retained |-> 0]

RECURSIVE ByteLen(_)
ByteLen(data) ==
    IF data = <<>> THEN 0 ELSE Head(data).len + ByteLen(Tail(data))

RECURSIVE SplitAcc(_, _)
SplitAcc(data, cur) ==
    IF data = <<>> THEN <<cur>>
    ELSE IF Head(data).t = "nl" THEN <<cur>> \o SplitAcc(Tail(data), <<>>)
    ELSE SplitAcc(Tail(data), Append(cur, Head(data)))

\* bytes.Split(data, "\n")
Split(data) == SplitAcc(data, <<>>)

\* json.Unmarshal(line, &obj) == nil: the line is exactly one JSON value
jsonValid(line) == Len(line) = 1 /\ line[1].valid

\* a metadata line with its two counters exchanged
MarshalMeta_Swapped(droppedLines, retainedLines) ==
    <<[t |-> "meta", id |-> 0, len |-> MetaLen, valid |-> TRUE,
       dropped |-> retainedLines, retained |-> droppedLines]>>

\* json.Marshal(TruncationMetadata{true, now, dropped, retained})
MarshalMeta(droppedLines, retainedLines) ==
    <<[t |-> "meta", id |-> 0, len |-> MetaLen, valid |-> TRUE,
       dropped |-> droppedLines, retained |-> retainedLines]>>

\* the retained lines left newest first
Reverse_Identity(s) == s

\* the swap loop that puts retainedLines back oldest first
RECURSIVE Reverse(_)
Reverse(s) == IF s = <<>> THEN <<>> ELSE Append(Reverse(Tail(s)), Head(s))

RECURSIVE FilterValid(_)
FilterValid(lines) ==
    IF lines = <<>> THEN <<>>
    ELSE IF Len(Head(lines)) = 0 THEN FilterValid(Tail(lines))
    ELSE IF jsonValid(Head(lines)) THEN <<Head(lines)>> \o FilterValid(Tail(lines))
    ELSE FilterValid(Tail(lines))

\* the loop "for i := len(validLines)-1; i >= 0; i--" of truncateByLine
RECURSIVE RetainLoop(_, _, _, _)
RetainLoop(validLines, i, acc, targetSize) ==
    IF i < 1 THEN acc
    ELSE LET lineSize == ByteLen(validLines[i]) + 1
         IN  IF acc.totalSize + lineSize <= targetSize \/ Len(acc.retainedLines) = 0
             THEN RetainLoop(validLines, i - 1,
                     [retainedLines |-> Append(acc.retainedLines, validLines[i]),
                      totalSize |-> acc.totalSize + lineSize,
                      droppedLines |-> acc.droppedLines], targetSize)
             ELSE RetainLoop(validLines, i - 1,
                     [acc EXCEPT !.droppedLines = @ + 1], targetSize)

RECURSIVE WriteLines(_)
WriteLines(lines) ==
    IF lines = <<>> THEN <<>> ELSE Head(lines) \o <<NL>> \o WriteLines(Tail(lines))

\* ---- BufferManager ----
NewBufferManager == [buffer |-> <<>>, currentSize |-> 0, lastFlushTime |-> now]

\* a budget of the whole ceiling
targetSize_Whole(cfg) == cfg.MaxBufferSizeBytes

\* targetSize := b.config.MaxBufferSizeBytes / 2
targetSize(cfg) == cfg.MaxBufferSizeBytes \div 2

\* a truncation that writes the metadata line after the retained lines
truncateByLine_MetaLast(b, cfg) ==
    LET data == b.buffer
        lines == Split(data)
        validLines == FilterValid(lines)
        kept == RetainLoop(validLines, Len(validLines),
                    [retainedLines |-> <<>>, totalSize |-> 0, droppedLines |-> 0],
                    targetSize(cfg))
        ordered == Reverse(kept.retainedLines)
        withMeta == IF cfg.AddTruncationMeta /\ kept.droppedLines > 0
                    THEN ordered \o <<MarshalMeta(kept.droppedLines, Len(ordered))>>
                    ELSE ordered
        rebuilt == WriteLines(withMeta)
    IN  IF ByteLen(data) = 0 THEN b
        ELSE IF Len(lines) <= 1 THEN [b EXCEPT !.buffer = <<>>]
        ELSE IF Len(validLines) = 0 THEN [b EXCEPT !.buffer = <<>>]
        ELSE [b EXCEPT !.buffer = rebuilt, !.currentSize = ByteLen(rebuilt)]

truncateByLine(b, cfg) ==
    LET data == b.buffer
        lines == Split(data)
        validLines == FilterValid(lines)
        kept == RetainLoop(validLines, Len(validLines),
                    [retainedLines |-> <<>>, totalSize |-> 0, droppedLines |-> 0],
                    targetSize(cfg))
        ordered == Reverse(kept.retainedLines)
        withMeta == IF cfg.AddTruncationMeta /\ kept.droppedLines > 0
                    THEN <<MarshalMeta(kept.droppedLines, Len(ordered))>> \o ordered
                    ELSE ordered
        rebuilt == WriteLines(withMeta)
    IN  IF ByteLen(data) = 0 THEN b
        ELSE IF Len(lines) <= 1 THEN [b EXCEPT !.buffer = <<>>]
        ELSE IF Len(validLines) = 0 THEN [b EXCEPT !.buffer = <<>>]
        ELSE [b EXCEPT !.buffer = rebuilt, !.currentSize = ByteLen(rebuilt)]

\* the overflow test with >= in place of >
Overflows_AtLimit(b, record, cfg) ==
    ByteLen(b.buffer) + ByteLen(record) + 1 >= cfg.MaxBufferSizeBytes

\* the condition under which AddRecord truncates and calls overflowCallback
Overflows(b, record, cfg) ==
    ByteLen(b.buffer) + ByteLen(record) + 1 > cfg.MaxBufferSizeBytes

\* AddRecord that adds the written bytes to currentSize instead of reading
\* the length of the buffer
AddRecord_AddsToSize(b, record, cfg) ==
    LET b1 == IF Overflows(b, record, cfg) THEN truncateByLine(b, cfg) ELSE b
        buffer2 == b1.buffer \o record \o <<NL>>
    IN  [b1 EXCEPT !.buffer = buffer2, !.currentSize = b1.currentSize + ByteLen(record) + 1]

\* AddRecord without the line separator after the record
AddRecord_NoNewline(b, record, cfg) ==
    LET b1 == IF Overflows(b, record, cfg) THEN truncateByLine(b, cfg) ELSE b
        buffer2 == b1.buffer \o record
    IN  [b1 EXCEPT !.buffer = buffer2, !.currentSize = ByteLen(buffer2)]

AddRecord(b, record, cfg) ==
    LET b1 == IF Overflows(b, record, cfg) THEN truncateByLine(b, cfg) ELSE b
        buffer2 == b1.buffer \o record \o <<NL>>
    IN  [b1 EXCEPT !.buffer = buffer2, !.currentSize = ByteLen(buffer2)]

\* BufferManager.Flush: a copy of the content (nil when empty), nothing cleared
Flush(b) == b.buffer

\* a byte slice a caller holds: its bytes, and whether it shares the storage
\* of the buffer (buffer.Bytes()) or is a copy of its own
NoSlice == [data |-> <<>>, shared |-> FALSE]

\* Flush that returns buffer.Bytes() without copying
FlushResult_NoCopy(b) ==
    [b |-> b, slice |-> [data |-> b.buffer, shared |-> b.buffer # <<>>]]

\* BufferManager.Flush as a call: the manager it leaves and the slice it
\* returns (make + copy; nil when the buffer is empty)
FlushResult(b) == [b |-> b, slice |-> [data |-> Flush(b), shared |-> FALSE]]

\* the bytes a caller reads through a slice: its own copy, or the storage of
\* the buffer when the slice shares it
SliceBytes(slice, b) == IF slice.shared THEN b.buffer ELSE slice.data

\* Reset that clears the content and leaves currentSize
Reset_KeepsSize(b) == [b EXCEPT !.buffer = <<>>]

Reset(b) == [b EXCEPT !.buffer = <<>>, !.currentSize = 0, !.lastFlushTime = now]

Size(b) == b.currentSize

\* BufferManager.IsFull
IsFull(b, cfg) == b.currentSize >= cfg.MaxBufferSizeBytes

\* ShouldFlush that answers from the elapsed time alone
ShouldFlush_IgnoresEmpty(b, cfg) == now - b.lastFlushTime >= cfg.FlushTimeoutSec

\* BufferManager.ShouldFlush
ShouldFlush(b, cfg) ==
    IF b.currentSize = 0 THEN FALSE
    ELSE now - b.lastFlushTime >= cfg.FlushTimeoutSec

\* BufferManager.UpdateFlushTime
UpdateFlushTime(b) == [b EXCEPT !.lastFlushTime = now]

\* ---- RetryManager ----
\* ---- ExponentialBackoff ----
\* a strategy is [initialBackoff, maxBackoff, num, den]: durations are whole
\* ticks, factor is the rational num / den and products are exact

\* NewExponentialBackoff(1*time.Second, 30*time.Second, 2.0), in seconds
DefaultBackoff == [initialBackoff |-> 1, maxBackoff |-> 30, num |-> 2, den |-> 1]

RECURSIVE Pow(_, _)
Pow(b, e) == IF e = 0 THEN 1 ELSE b * Pow(b, e - 1)

\* time.Duration(x) of the float x = a / b, b > 0: truncation toward zero
TruncDiv(a, b) == IF a >= 0 THEN a \div b ELSE 0 - ((0 - a) \div b)

\* the loop of NextBackoff after i multiplications, i >= 1
RECURSIVE BackoffLoop(_, _, _)
BackoffLoop(e, i, retryCount) ==
    LET vnum == e.initialBackoff * Pow(e.num, i)
        vden == Pow(e.den, i)
    IN  IF vnum >= e.maxBackoff * vden THEN e.maxBackoff
        ELSE IF i >= retryCount THEN TruncDiv(vnum, vden)
        ELSE BackoffLoop(e, i + 1, retryCount)

\* NextBackoff that never caps
NextBackoff_NoCap(e, retryCount) ==
    IF retryCount <= 0 THEN e.initialBackoff
    ELSE TruncDiv(e.initialBackoff * Pow(e.num, retryCount), Pow(e.den, retryCount))

\* ExponentialBackoff.NextBackoff(retryCount)
NextBackoff(e, retryCount) ==
    IF retryCount <= 0 THEN e.initialBackoff
    ELSE BackoffLoop(e, 1, retryCount)

NewRetryManager ==
    [retryCount |-> 0, objectKey |-> 0, isRetrying |-> FALSE,
     backoffStrategy |-> DefaultBackoff]

\* RetryManager.GetBackoffDuration
GetBackoffDuration(r) == NextBackoff(r.backoffStrategy, r.retryCount)

\* an error value: nil, or what errors.As and err.Error() expose of it
\* (msg is the set of the keywords the message contains)
NoError == [nil |-> TRUE, temporary |-> FALSE, code |-> 0, msg |-> {}]

Keywords == {"permission", "auth", "credential", "connection", "timeout", "temporary"}

Errors == [nil : {FALSE}, temporary : BOOLEAN, code : {0, 403, 429, 503},
           msg : {m \in SUBSET Keywords : Cardinality(m) <= MaxKeywords}]

\* isRetryableError (out_gcs.go), the classifier of the legacy flushBuffer
legacyIsRetryableError(err) ==
    IF err.nil THEN FALSE
    ELSE IF "connection" \in err.msg \/ "timeout" \in err.msg \/ "temporary" \in err.msg
    THEN TRUE
    ELSE IF "permission" \in err.msg \/ "auth" \in err.msg \/ "credential" \in err.msg
    THEN FALSE
    ELSE TRUE

\* isRetryableError without the "credential" keyword
isRetryableError_NoCredential(err) ==
    IF err.temporary THEN TRUE
    ELSE IF err.code # 0 /\ ((err.code >= 500 /\ err.code < 600) \/ err.code = 429)
    THEN TRUE
    ELSE IF "permission" \in err.msg \/ "auth" \in err.msg
    THEN FALSE
    ELSE TRUE

\* isRetryableError (buffer_manager.go), the classifier of RetryManager
isRetryableError(err) ==
    IF err.temporary THEN TRUE
    ELSE IF err.code # 0 /\ ((err.code >= 500 /\ err.code < 600) \/ err.code = 429)
    THEN TRUE
    ELSE IF "permission" \in err.msg \/ "auth" \in err.msg \/ "credential" \in err.msg
    THEN FALSE
    ELSE TRUE

\* ShouldRetry that looks at the retry count only
ShouldRetry_IgnoresClass(r, err) ==
    IF err.nil THEN FALSE
    ELSE IF r.retryCount >= maxRetryCount THEN FALSE
    ELSE TRUE

\* ShouldRetry that allows one attempt more
ShouldRetry_OneMore(r, err) ==
    IF err.nil THEN FALSE
    ELSE IF r.retryCount > maxRetryCount THEN FALSE
    ELSE isRetryableError(err)

ShouldRetry(r, err) ==
    IF err.nil THEN FALSE
    ELSE IF r.retryCount >= maxRetryCount THEN FALSE
    ELSE isRetryableError(err)

GetRetryObjectKey(r) == r.objectKey

\* SetRetryObjectKey that does not store the key
SetRetryObjectKey_NotSaved(r, key) == r

SetRetryObjectKey(r, key) == [r EXCEPT !.objectKey = key]

\* IncrementRetryCount that raises the flag and leaves the count
IncrementRetryCount_NoCount(r) == [r EXCEPT !.isRetrying = TRUE]

\* IncrementRetryCount that does not raise the flag
IncrementRetryCount_NoFlag(r) == [r EXCEPT !.retryCount = @ + 1]

IncrementRetryCount(r) == [r EXCEPT !.retryCount = @ + 1, !.isRetrying = TRUE]

GetRetryCount(r) == r.retryCount

IsRetrying(r) == r.isRetrying

\* ResetRetry that leaves the saved key
ResetRetry_KeepsKey(r) == [r EXCEPT !.retryCount = 0, !.isRetrying = FALSE]

ResetRetry(r) == [r EXCEPT !.retryCount = 0, !.objectKey = 0, !.isRetrying = FALSE]

\* ---- PluginContext ----
\* the records of a byte sequence
IdsOf(data) == {data[i].id : i \in {j \in 1..Len(data) : data[j].t = "rec"}}

NoCycle == [keys |-> {}, writes |-> 0, first |-> <<>>]

\* ---- compress/gzip ----
\* the ten header bytes of a gzip member
gzipHeader == [t |-> "gzip-header"]

\* gzip.NewWriter(&gzipBuffer): nothing is written before the first Write
NewWriter ==
    [out |-> <<>>, wroteHeader |-> FALSE, pending |-> <<>>, digest |-> <<>>, size |-> 0,
     closed |-> FALSE]

\* zw.Write(data): the header goes out on the first call, the data into the
\* compressor, which holds it until it is flushed or closed
gzipWrite(zw, data) ==
    [zw EXCEPT !.out = IF zw.wroteHeader THEN @ ELSE @ \o <<gzipHeader>>,
               !.wroteHeader = TRUE,
               !.pending = @ \o data,
               !.digest = @ \o data,
               !.size = @ + ByteLen(data)]

\* zw.Close(): writes the header if no Write did, the final deflate block with
\* the held data, and the trailer (CRC-32 and length of the input)
gzipClose(zw) ==
    IF zw.closed THEN zw
    ELSE LET w == gzipWrite(zw, <<>>)
         IN  [w EXCEPT !.out = @ \o <<[t |-> "deflate", data |-> w.pending],
                                      [t |-> "gzip-trailer", crc32 |-> w.digest,
                                       isize |-> w.size]>>,
                       !.pending = <<>>,
                       !.closed = TRUE]

\* compressData that returns the buffer without closing the writer
compressData_NoClose(data) == gzipWrite(NewWriter, data).out

\* PluginContext.compressData(data): the bytes of gzipBuffer it returns
compressData(data) == gzipClose(gzipWrite(NewWriter, data)).out

\* gzip.NewReader and io.ReadAll on a byte stream: the data of a complete
\* member whose trailer matches, an error otherwise
Gunzip(stream) ==
    IF /\ Len(stream) = 3
       /\ stream[1] = gzipHeader
       /\ stream[2].t = "deflate"
       /\ stream[3].t = "gzip-trailer"
       /\ stream[3].crc32 = stream[2].data
       /\ stream[3].isize = ByteLen(stream[2].data)
    THEN [ok |-> TRUE, data |-> stream[2].data]
    ELSE [ok |-> FALSE, data |-> <<>>]

\* the RecordWrite events of one call and the arguments of the last of them
NoRecordWrite == [count |-> 0, success |-> FALSE, byteCount |-> 0]

\* a RecordWrite that records nothing
RecordWrite_Dropped(success, byteCount) == NoRecordWrite

\* metricsCollector.RecordWrite(success, tag, byteCount, elapsed), called once
RecordWrite(success, byteCount) ==
    [count |-> 1, success |-> success, byteCount |-> byteCount]

\* what a call reports when nothing of the kind happened in it
NoReport ==
    [op |-> "none", record |-> <<>>, ret |-> 0, errNil |-> TRUE, overflow |-> 0,
     compFailed |-> FALSE, wrote |-> FALSE, key |-> 0, payload |-> <<>>,
     err |-> NoError, maxRetries |-> 0, cycleKeys |-> {}, cycleWrites |-> 0,
     result |-> FALSE, arg |-> 0, recordWrite |-> NoRecordWrite, body |-> <<>>,
     code |-> "none"]

\* ProcessRecord that does not look at IsRetrying
ProcessRecord_Always(b, r, record, cfg) == AddRecord(b, record, cfg)

ProcessRecord(b, r, record, cfg) ==
    IF ~IsRetrying(r) THEN AddRecord(b, record, cfg) ELSE b

\* FlushMaxRetries that clears the retry state and keeps the buffer
FlushMaxRetries_NoReset(b, r) ==
    [b |-> b, r |-> ResetRetry(r), kc |-> 0, cyc |-> NoCycle, disc |-> {},
     rep |-> [NoReport EXCEPT !.op = "Flush", !.maxRetries = 1]]

\* PluginContext.Flush, max-retry check at entry
FlushMaxRetries(b, r) ==
    [b |-> Reset(b), r |-> ResetRetry(r), kc |-> 0, cyc |-> NoCycle, disc |-> {},
     rep |-> [NoReport EXCEPT !.op = "Flush", !.maxRetries = 1]]

\* a compression failure that discards the buffer like a fatal error
FlushCompressionError_Discards(b, r, cyc) ==
    [b |-> Reset(b), r |-> ResetRetry(r), kc |-> 0, cyc |-> NoCycle, disc |-> {},
     rep |-> [NoReport EXCEPT !.op = "Flush", !.ret = -1, !.errNil = FALSE,
                              !.compFailed = TRUE]]

\* PluginContext.Flush, compressData returned an error
FlushCompressionError(b, r, cyc) ==
    [b |-> b, r |-> IncrementRetryCount(r), kc |-> 0,
     cyc |-> [cyc EXCEPT !.first = IF @ = <<>> THEN Flush(b) ELSE @], disc |-> {},
     rep |-> [NoReport EXCEPT !.op = "Flush", !.ret = -1, !.errNil = FALSE,
                              !.compFailed = TRUE]]

\* PluginContext.Flush from the choice of the object key to the return
FlushWrite(b, r, kc, cyc, bufferData, err) ==
    LET reuse == IsRetrying(r) /\ GetRetryObjectKey(r) # 0
        objectKey == IF reuse THEN GetRetryObjectKey(r) ELSE kc + 1
        r1 == IF reuse THEN r ELSE SetRetryObjectKey(r, objectKey)
        cyc1 == [keys |-> cyc.keys \cup {objectKey}, writes |-> cyc.writes + 1,
                 first |-> IF cyc.first = <<>> THEN bufferData ELSE cyc.first]
        rep == [NoReport EXCEPT !.op = "Flush", !.wrote = TRUE, !.key = objectKey,
                                !.payload = bufferData, !.err = err,
                                !.body = compressData(bufferData),
                                !.cycleKeys = cyc1.keys, !.cycleWrites = cyc1.writes]
        gen == IF reuse THEN 0 ELSE 1
    IN  IF ~err.nil
        THEN IF ShouldRetry(r1, err)
             THEN [b |-> b, r |-> IncrementRetryCount(r1), kc |-> gen, cyc |-> cyc1,
                   disc |-> {},
                   rep |-> [rep EXCEPT !.ret = -1, !.errNil = FALSE,
                              !.recordWrite = RecordWrite(FALSE, ByteLen(bufferData))]]
             ELSE [b |-> Reset(b), r |-> ResetRetry(r1), kc |-> gen, cyc |-> NoCycle,
                   disc |-> IdsOf(bufferData),
                   rep |-> [rep EXCEPT !.ret = -1, !.errNil = FALSE,
                              !.recordWrite = RecordWrite(FALSE, ByteLen(bufferData))]]
        ELSE [b |-> Reset(b), r |-> ResetRetry(r1), kc |-> gen, cyc |-> NoCycle,
              disc |-> {},
              rep |-> [rep EXCEPT !.recordWrite = RecordWrite(TRUE, ByteLen(bufferData))]]

\* PluginContext.Flush(tag): compFails and err are what compressData and
\* storageClient.Write return in this call
PluginContextFlush(b, r, kc, cyc, compFails, err) ==
    IF GetRetryCount(r) > maxRetryCount THEN FlushMaxRetries(b, r)
    ELSE LET bufferData == Flush(b)
         IN  IF ByteLen(bufferData) = 0
             THEN [b |-> b, r |-> r, kc |-> 0, cyc |-> cyc, disc |-> {},
                   rep |-> [NoReport EXCEPT !.op = "Flush"]]
             ELSE IF compFails THEN FlushCompressionError(b, r, cyc)
             ELSE FlushWrite(b, r, kc, cyc, bufferData, err)

\* FlushIfNeeded that does not look at the retry state
FlushTrigger_NoRetry(b, r, cfg) == IsFull(b, cfg) \/ ShouldFlush(b, cfg)

\* shouldFlush of PluginContext.FlushIfNeeded
FlushTrigger(b, r, cfg) == IsFull(b, cfg) \/ ShouldFlush(b, cfg) \/ IsRetrying(r)

\* PluginContext.FlushIfNeeded(tag)
FlushIfNeeded(b, r, kc, cyc, cfg, compFails, err) ==
    IF FlushTrigger(b, r, cfg)
    THEN LET res == PluginContextFlush(b, r, kc, cyc, compFails, err)
         IN  [res EXCEPT !.rep = [@ EXCEPT !.op = "FlushIfNeeded", !.result = TRUE]]
    ELSE [b |-> b, r |-> r, kc |-> 0, cyc |-> cyc, disc |-> {},
          rep |-> [NoReport EXCEPT !.op = "FlushIfNeeded"]]

\* ---- inputs ----
\* the records handed to AddRecord / ProcessRecord: the empty record, valid
\* JSON of 1..MaxLen bytes, and bytes that are not JSON
RecordInputs(id) ==
    {<<>>} \cup {<<Chunk(id, len, TRUE)>> : len \in 1..MaxLen}
           \cup {<<Chunk(id, len, FALSE)>> : len \in 1..MaxBadLen}

\* the errors storageClient.Write returns in the runs explored: a 503, a
\* "permission denied", a "connection reset", and a "permission" error that
\* reports Temporary()
WriteErrors ==
    {[nil |-> FALSE, temporary |-> FALSE, code |-> 503, msg |-> {}],
     [nil |-> FALSE, temporary |-> FALSE, code |-> 0, msg |-> {"permission"}],
     [nil |-> FALSE, temporary |-> FALSE, code |-> 0, msg |-> {"connection"}],
     [nil |-> FALSE, temporary |-> TRUE, code |-> 0, msg |-> {"permission"}]}

\* ---- the host side: adapter, goroutines, locks, the legacy context ----
\* NewFluentBitPlugin: lastFlushTime is the time of construction
NewFluentBitPlugin == [lastFlushTime |-> now]

\* the goroutines that call into one context at the same time
Threads == {1, 2}

\* a goroutine outside every call. pc is the call site it is at, in whether it
\* has locked the mutex of that call, before the BufferManager it found when
\* it locked it in AddRecord; the other fields are the locals of the calls
IdleThread ==
    [pc |-> "idle", in |-> FALSE, op |-> "none", record |-> <<>>, before |-> <<>>,
     bufferData |-> <<>>, objectKey |-> 0, err |-> NoError, flushResult |-> "none"]

NoThreads == [t \in Threads |-> IdleThread]

\* the zero value of every sync.Mutex: unlocked
Unlocked == [plugin |-> 0, buffer |-> 0, retry |-> 0, metrics |-> 0]

\* the PluginContext FLBPluginInit of out_gcs.go builds; chunk is the chunk the
\* host will deliver again, written the records of the successful Writes,
\* deliveries the number of FLBPluginFlushCtx calls made
NewLegacyContext ==
    [Buffer |-> <<>>, CurrentBufferSize |-> 0, RetryCount |-> 0, IsRetrying |-> FALSE,
     RetryObjectKey |-> 0, LastFlushTime |-> now, MaxRetryCount |-> maxRetryCount,
     MaxBufferSizeBytes |-> TruncateCeiling, chunk |-> <<>>, written |-> <<>>,
     deliveries |-> 0]

\* the record of every whole line in a byte sequence, oldest first
RECURSIVE RecordIds(_)
RecordIds(data) ==
    IF data = <<>> THEN <<>>
    ELSE (IF Head(data).t = "rec" THEN <<Head(data).id>> ELSE <<>>)
         \o RecordIds(Tail(data))

\* data[len(data)-n:], the last n bytes: a record cut by the slice is no
\* longer a record
RECURSIVE LastBytes(_, _)
LastBytes(data, n) ==
    IF n = 0 \/ data = <<>> THEN <<>>
    ELSE LET x == data[Len(data)]
             rest == SubSeq(data, 1, Len(data) - 1)
         IN  IF x.len <= n THEN LastBytes(rest, n - x.len) \o <<x>>
             ELSE <<[x EXCEPT !.t = "part", !.len = n, !.valid = FALSE]>>

\* compressBuffer of out_gcs.go: the same gzip steps as compressData
compressBuffer(data) == gzipClose(gzipWrite(NewWriter, data)).out

\* the statements that reset buffer and retry state after a Write
legacyReset(v) ==
    [v EXCEPT !.Buffer = <<>>, !.CurrentBufferSize = 0, !.LastFlushTime = now,
              !.IsRetrying = FALSE, !.RetryObjectKey = 0, !.RetryCount = 0]

\* flushBuffer that generates a new key on every call
flushKey_Fresh(v, kc) == kc + 1

\* the object key flushBuffer writes under
flushKey(v, kc) ==
    IF v.IsRetrying /\ v.RetryObjectKey # 0 THEN v.RetryObjectKey ELSE kc + 1

\* flushBuffer(values, tag) of out_gcs.go: compFails and err are what
\* compressBuffer and gcsClient.Write return in this call
flushBuffer(v, kc, compFails, err) ==
    IF ByteLen(v.Buffer) = 0
    THEN [v |-> v, kc |-> kc, rep |-> [NoReport EXCEPT !.op = "flushBuffer"]]
    ELSE IF compFails
    THEN [v |-> [v EXCEPT !.IsRetrying = TRUE, !.RetryCount = @ + 1], kc |-> kc,
          rep |-> [NoReport EXCEPT !.op = "flushBuffer", !.errNil = FALSE,
                                   !.compFailed = TRUE]]
    ELSE LET objectKey == flushKey(v, kc)
             v1 == [v EXCEPT !.RetryObjectKey = objectKey]
             kc1 == IF objectKey > kc THEN objectKey ELSE kc
             rep == [NoReport EXCEPT !.op = "flushBuffer", !.wrote = TRUE,
                                     !.key = objectKey, !.payload = v.Buffer,
                                     !.body = compressBuffer(v.Buffer), !.err = err]
         IN  IF ~err.nil
             THEN IF legacyIsRetryableError(err)
                  THEN LET v2 == [v1 EXCEPT !.RetryCount = @ + 1]
                       IN  IF v2.MaxRetryCount > 0 /\ v2.RetryCount >= v2.MaxRetryCount
                           THEN [v |-> legacyReset(v2), kc |-> kc1,
                                 rep |-> [rep EXCEPT !.maxRetries = 1]]
                           ELSE [v |-> [v2 EXCEPT !.IsRetrying = TRUE], kc |-> kc1,
                                 rep |-> [rep EXCEPT !.errNil = FALSE]]
                  ELSE [v |-> legacyReset(v1), kc |-> kc1,
                        rep |-> [rep EXCEPT !.errNil = FALSE]]
             ELSE [v |-> [legacyReset(v1) EXCEPT
                              !.written = @ \o RecordIds(v.Buffer)],
                   kc |-> kc1, rep |-> rep]

\* the loop of FLBPluginFlushCtx over the records of the chunk; outcomes[k + 1]
\* is what the next flushBuffer call meets
RECURSIVE FlushCtxLoop(_, _, _, _, _)
FlushCtxLoop(v, kc, records, outcomes, k) ==
    IF records = <<>> THEN [v |-> v, kc |-> kc, failed |-> FALSE, k |-> k]
    ELSE LET line == Head(records)
             v1 == IF ~v.IsRetrying
                   THEN [v EXCEPT !.Buffer = @ \o line \o <<NL>>,
                                  !.CurrentBufferSize = @ + ByteLen(line) + 1]
                   ELSE v
         IN  IF v1.CurrentBufferSize >= bufferSize \/ v1.IsRetrying
             THEN LET f == flushBuffer(v1, kc, outcomes[k + 1].compFails,
                                       outcomes[k + 1].err)
                  IN  IF ~f.rep.errNil
                      THEN [v |-> f.v, kc |-> f.kc, failed |-> TRUE, k |-> k + 1]
                      ELSE FlushCtxLoop(f.v, f.kc, Tail(records), outcomes, k + 1)
             ELSE FlushCtxLoop(v1, kc, Tail(records), outcomes, k)

\* FLBPluginFlushCtx of out_gcs.go, with contextMutex held from the size
\* check to the return
FLBPluginFlushCtx(v, kc, records, outcomes) ==
    LET v0 == IF ByteLen(v.Buffer) > v.MaxBufferSizeBytes
              THEN [v EXCEPT !.Buffer = LastBytes(v.Buffer, v.MaxBufferSizeBytes),
                             !.CurrentBufferSize = v.MaxBufferSizeBytes]
              ELSE v
        v1 == IF v0.RetryCount > v0.MaxRetryCount
              THEN [v0 EXCEPT !.Buffer = <<>>, !.CurrentBufferSize = 0,
                              !.IsRetrying = FALSE, !.RetryObjectKey = 0,
                              !.RetryCount = 0]
              ELSE v0
        loop == FlushCtxLoop(v1, kc, records, outcomes, 0)
        timed == loop.v.IsRetrying
                 \/ (now - loop.v.LastFlushTime >= Minute /\ ByteLen(loop.v.Buffer) > 0)
        f == flushBuffer(loop.v, loop.kc, outcomes[loop.k + 1].compFails,
                         outcomes[loop.k + 1].err)
    IN  IF loop.failed
        THEN [v |-> loop.v, kc |-> loop.kc, code |-> "FLB_RETRY"]
        ELSE IF timed
        THEN [v |-> f.v, kc |-> f.kc,
              code |-> IF f.rep.errNil THEN "FLB_OK" ELSE "FLB_RETRY"]
        ELSE [v |-> loop.v, kc |-> loop.kc, code |-> "FLB_OK"]

\* convertToJSON: the JSON encoding of the record followed by a newline
convertToJSON(record) == record \o <<NL>>

\* the maps Fluent Bit hands to processRecord: json.Marshal of a map is valid JSON
PluginRecords(id) == {<<Chunk(id, len, TRUE)>> : len \in 1..MaxLen}

\* FluentBitPlugin.processRecord(tag, timestamp, record), with p.mutex held from
\* entry to return
processRecord(b, r, p, kc, cyc, cfg, record, compFails, err) ==
    LET data == convertToJSON(record)
        b1 == ProcessRecord(b, r, data, cfg)
        overflow == IF ~IsRetrying(r) /\ Overflows(b, data, cfg) THEN 1 ELSE 0
        shouldFlush == now - p.lastFlushTime >= cfg.FlushTimeoutSec \/ IsFull(b1, cfg)
        res == PluginContextFlush(b1, r, kc, cyc, compFails, err)
    IN  IF shouldFlush
        THEN [b |-> res.b, r |-> res.r, kc |-> res.kc, cyc |-> res.cyc, disc |-> res.disc,
              p |-> IF res.rep.errNil THEN [p EXCEPT !.lastFlushTime = now] ELSE p,
              rep |-> [res.rep EXCEPT !.op = "processRecord", !.record = data,
                                      !.overflow = overflow, !.result = TRUE]]
        ELSE [b |-> b1, r |-> r, kc |-> 0, cyc |-> cyc, disc |-> {}, p |-> p,
              rep |-> [NoReport EXCEPT !.op = "processRecord", !.record = data,
                                       !.overflow = overflow]]

\* ---- call sites of the goroutines ----
\* the call sites that lock b.mutex of the BufferManager on entry
BufferSites ==
    {"AddRecord", "BufferFlush", "Reset", "Size", "IsFull", "ShouldFlush",
     "processRecord.IsFull", "FlushIfNeeded.IsFull", "FlushIfNeeded.ShouldFlush",
     "Flush.Flush", "Flush.max.Reset", "Flush.fatal.Reset", "Flush.ok.Reset",
     "FlushPlugin.Size"}

\* the call sites that lock r.mutex of the RetryManager on entry
RetrySites ==
    {"ProcessRecord.IsRetrying", "FlushIfNeeded.IsRetrying", "Flush.GetRetryCount",
     "Flush.max.ResetRetry", "Flush.comp.IncrementRetryCount", "Flush.key.IsRetrying",
     "Flush.key.GetRetryObjectKey", "Flush.key.GetRetryObjectKey2",
     "Flush.SetRetryObjectKey", "Flush.ShouldRetry", "Flush.IncrementRetryCount",
     "Flush.fatal.ResetRetry", "Flush.ok.ResetRetry"}

\* the call sites that lock m.mutex of the MetricsCollector on entry
MetricsSites ==
    {"overflowCallback", "Flush.max.RecordMaxRetriesReached", "Flush.comp.RecordRetry",
     "Flush.comp.RecordError", "Flush.RecordCompressionRatio", "Flush.RecordError",
     "Flush.RecordRetry", "Flush.err.RecordWrite", "Flush.ok.RecordWrite",
     "Flush.OutputMetrics", "FlushPlugin.OutputMetrics"}

\* the call sites that lock p.mutex of the FluentBitPlugin on entry
PluginSites == {"processRecord.Lock", "FlushPlugin.Lock"}

\* a FlushPlugin that does not take p.mutex
SiteLock_FlushPluginUnlocked(pc) ==
    IF pc \in BufferSites THEN "buffer"
    ELSE IF pc \in RetrySites THEN "retry"
    ELSE IF pc \in MetricsSites THEN "metrics"
    ELSE IF pc = "processRecord.Lock" THEN "plugin"
    ELSE "none"

\* an overflow callback that calls back into the BufferManager
SiteLock_CallbackReenters(pc) ==
    IF pc \in BufferSites \/ pc = "overflowCallback" THEN "buffer"
    ELSE IF pc \in RetrySites THEN "retry"
    ELSE IF pc \in MetricsSites THEN "metrics"
    ELSE IF pc \in PluginSites THEN "plugin"
    ELSE "none"

\* the mutex a call site locks on entry
SiteLock(pc) ==
    IF pc \in BufferSites THEN "buffer"
    ELSE IF pc \in RetrySites THEN "retry"
    ELSE IF pc \in MetricsSites THEN "metrics"
    ELSE IF pc \in PluginSites THEN "plugin"
    ELSE "none"

\* the mutex unlocked when the step at a call site ends: AddRecord keeps
\* b.mutex until currentSize is set, processRecord and FlushPlugin keep p.mutex
\* until they return, every other call unlocks what it locked
SiteUnlock(pc) ==
    IF pc \in {"AddRecord", "processRecord.Lock", "FlushPlugin.Lock"} THEN "none"
    ELSE IF pc = "currentSize" THEN "buffer"
    ELSE IF pc \in {"processRecord.Unlock", "FlushPlugin.Unlock"} THEN "plugin"
    ELSE SiteLock(pc)

\* a Lock that does not wait for the holder
CanLock_NoExclusion(m, name) == TRUE

\* sync.Mutex.Lock returns only when the mutex is unlocked
CanLock(m, name) == m[name] = 0

\* the condition a call site evaluates: the value the call returns or the
\* branch the code takes on it
SiteFlag(pc, th, b, r, p, cfg, compFails, err) ==
    IF pc = "AddRecord" THEN Overflows(b, th.record, cfg)
    ELSE IF pc \in {"ProcessRecord.IsRetrying", "FlushIfNeeded.IsRetrying",
                    "Flush.key.IsRetrying"} THEN IsRetrying(r)
    ELSE IF pc \in {"IsFull", "processRecord.IsFull", "FlushIfNeeded.IsFull"}
    THEN IsFull(b, cfg)
    ELSE IF pc \in {"ShouldFlush", "FlushIfNeeded.ShouldFlush"} THEN ShouldFlush(b, cfg)
    ELSE IF pc = "processRecord.shouldFlush"
    THEN now - p.lastFlushTime >= cfg.FlushTimeoutSec
    ELSE IF pc = "FlushPlugin.Size" THEN Size(b) > 0
    ELSE IF pc = "Flush.GetRetryCount" THEN GetRetryCount(r) > maxRetryCount
    ELSE IF pc = "Flush.Flush" THEN ByteLen(Flush(b)) = 0
    ELSE IF pc = "Flush.compressData" THEN compFails
    ELSE IF pc = "Flush.key.GetRetryObjectKey" THEN GetRetryObjectKey(r) # 0
    ELSE IF pc = "Flush.Write" THEN ~err.nil
    ELSE IF pc = "Flush.ShouldRetry" THEN ShouldRetry(r, th.err)
    ELSE FALSE

\* where PluginContext.Flush returns to: FlushPlugin returns at once on an
\* error of its final flush
FlushReturn(th) ==
    IF th.op = "processRecord" THEN "processRecord.Unlock"
    ELSE IF th.op = "FlushPlugin"
    THEN IF th.flushResult = "error" THEN "FlushPlugin.Unlock"
         ELSE "FlushPlugin.OutputMetrics"
    ELSE "idle"

\* where PluginContext.ProcessRecord returns to
ProcessRecordReturn(th) ==
    IF th.op = "processRecord" THEN "processRecord.shouldFlush" ELSE "idle"

\* the call site that follows pc in the code when its condition is flag
SiteNext(pc, th, flag) ==
    CASE pc = "AddRecord" -> IF flag THEN "overflowCallback" ELSE "Write"
      [] pc = "overflowCallback" -> "Write"
      [] pc = "Write" -> "WriteNewline"
      [] pc = "WriteNewline" -> "currentSize"
      [] pc = "currentSize" -> ProcessRecordReturn(th)
      [] pc = "ProcessRecord.IsRetrying" ->
            IF flag THEN ProcessRecordReturn(th) ELSE "AddRecord"
      [] pc = "processRecord.Lock" -> "ProcessRecord.IsRetrying"
      [] pc = "FlushPlugin.Lock" -> "FlushPlugin.Size"
      [] pc = "FlushPlugin.Size" ->
            IF flag THEN "Flush.GetRetryCount" ELSE "FlushPlugin.OutputMetrics"
      [] pc = "FlushPlugin.OutputMetrics" -> "FlushPlugin.Close"
      [] pc = "FlushPlugin.Close" -> "FlushPlugin.Unlock"
      [] pc = "processRecord.shouldFlush" ->
            IF flag THEN "Flush.GetRetryCount" ELSE "processRecord.IsFull"
      [] pc = "processRecord.IsFull" ->
            IF flag THEN "Flush.GetRetryCount" ELSE "processRecord.Unlock"
      [] pc = "FlushIfNeeded.IsFull" ->
            IF flag THEN "Flush.GetRetryCount" ELSE "FlushIfNeeded.ShouldFlush"
      [] pc = "FlushIfNeeded.ShouldFlush" ->
            IF flag THEN "Flush.GetRetryCount" ELSE "FlushIfNeeded.IsRetrying"
      [] pc = "FlushIfNeeded.IsRetrying" ->
            IF flag THEN "Flush.GetRetryCount" ELSE "idle"
      [] pc = "Flush.GetRetryCount" -> IF flag THEN "Flush.max.Reset" ELSE "Flush.Flush"
      [] pc = "Flush.max.Reset" -> "Flush.max.ResetRetry"
      [] pc = "Flush.max.ResetRetry" -> "Flush.max.RecordMaxRetriesReached"
      [] pc = "Flush.max.RecordMaxRetriesReached" -> FlushReturn(th)
      [] pc = "Flush.Flush" -> IF flag THEN FlushReturn(th) ELSE "Flush.compressData"
      [] pc = "Flush.compressData" ->
            IF flag THEN "Flush.comp.IncrementRetryCount"
            ELSE "Flush.RecordCompressionRatio"
      [] pc = "Flush.comp.IncrementRetryCount" -> "Flush.comp.RecordRetry"
      [] pc = "Flush.comp.RecordRetry" -> "Flush.comp.RecordError"
      [] pc = "Flush.comp.RecordError" -> FlushReturn(th)
      [] pc = "Flush.RecordCompressionRatio" -> "Flush.key.IsRetrying"
      [] pc = "Flush.key.IsRetrying" ->
            IF flag THEN "Flush.key.GetRetryObjectKey" ELSE "Flush.generateObjectKey"
      [] pc = "Flush.key.GetRetryObjectKey" ->
            IF flag THEN "Flush.key.GetRetryObjectKey2" ELSE "Flush.generateObjectKey"
      [] pc = "Flush.key.GetRetryObjectKey2" -> "Flush.Write"
      [] pc = "Flush.generateObjectKey" -> "Flush.SetRetryObjectKey"
      [] pc = "Flush.SetRetryObjectKey" -> "Flush.Write"
      [] pc = "Flush.Write" -> IF flag THEN "Flush.RecordError" ELSE "Flush.ok.Reset"
      [] pc = "Flush.RecordError" -> "Flush.ShouldRetry"
      [] pc = "Flush.ShouldRetry" ->
            IF flag THEN "Flush.IncrementRetryCount" ELSE "Flush.fatal.Reset"
      [] pc = "Flush.IncrementRetryCount" -> "Flush.RecordRetry"
      [] pc = "Flush.RecordRetry" -> "Flush.err.RecordWrite"
      [] pc = "Flush.fatal.Reset" -> "Flush.fatal.ResetRetry"
      [] pc = "Flush.fatal.ResetRetry" -> "Flush.err.RecordWrite"
      [] pc = "Flush.err.RecordWrite" -> FlushReturn(th)
      [] pc = "Flush.ok.Reset" -> "Flush.ok.ResetRetry"
      [] pc = "Flush.ok.ResetRetry" -> "Flush.ok.RecordWrite"
      [] pc = "Flush.ok.RecordWrite" -> "Flush.OutputMetrics"
      [] pc = "Flush.OutputMetrics" -> FlushReturn(th)
      [] OTHER -> "idle"

\* the BufferManager after the step at a call site
SiteBuffer(pc, th, b, cfg) ==
    IF pc = "AddRecord"
    THEN IF Overflows(b, th.record, cfg) THEN truncateByLine(b, cfg) ELSE b
    ELSE IF pc = "Write" THEN [b EXCEPT !.buffer = @ \o th.record]
    ELSE IF pc = "WriteNewline" THEN [b EXCEPT !.buffer = @ \o <<NL>>]
    ELSE IF pc = "currentSize" THEN [b EXCEPT !.currentSize = ByteLen(b.buffer)]
    ELSE IF pc \in {"Reset", "Flush.max.Reset", "Flush.fatal.Reset", "Flush.ok.Reset"}
    THEN Reset(b)
    ELSE b

\* the RetryManager after the step at a call site
SiteRetry(pc, th, r) ==
    IF pc \in {"Flush.max.ResetRetry", "Flush.fatal.ResetRetry", "Flush.ok.ResetRetry"}
    THEN ResetRetry(r)
    ELSE IF pc \in {"Flush.comp.IncrementRetryCount", "Flush.IncrementRetryCount"}
    THEN IncrementRetryCount(r)
    ELSE IF pc = "Flush.SetRetryObjectKey" THEN SetRetryObjectKey(r, th.objectKey)
    ELSE r

\* what PluginContext.Flush returns when it returns after the step at pc
SiteFlushResult(pc, th, b) ==
    IF pc \in {"Flush.comp.RecordError", "Flush.err.RecordWrite"} THEN "error"
    ELSE IF pc \in {"Flush.max.RecordMaxRetriesReached", "Flush.OutputMetrics"}
    THEN "ok"
    ELSE IF pc = "Flush.Flush" /\ ByteLen(Flush(b)) = 0 THEN "ok"
    ELSE th.flushResult

\* the locals of the goroutine after the step at a call site
SiteLocals(pc, th, b, r, kc, err) ==
    [th EXCEPT
        !.record = IF pc = "processRecord.Lock" THEN convertToJSON(@) ELSE @,
        !.bufferData = IF pc \in {"BufferFlush", "Flush.Flush"} THEN Flush(b) ELSE @,
        !.objectKey = IF pc = "Flush.key.GetRetryObjectKey2" THEN GetRetryObjectKey(r)
                      ELSE IF pc = "Flush.generateObjectKey" THEN kc + 1
                      ELSE @,
        !.err = IF pc = "Flush.Write" THEN err ELSE @,
        !.flushResult = SiteFlushResult(pc, th, b)]

\* the first call site of each call a goroutine can make
EntrySite(op) ==
    CASE op = "processRecord" -> "processRecord.Lock"
      [] op = "FlushPlugin" -> "FlushPlugin.Lock"
      [] op = "ProcessRecord" -> "ProcessRecord.IsRetrying"
      [] op = "Flush" -> "Flush.GetRetryCount"
      [] op = "FlushIfNeeded" -> "FlushIfNeeded.IsFull"
      [] OTHER -> op

\* no goroutine is inside a call, every mutex is unlocked
HostIdle ==
    /\ plugin = NewFluentBitPlugin
    /\ threads = NoThreads
    /\ mutex = Unlocked
    /\ legacy = NewLegacyContext

\* ---- the state machine ----
Init ==
    /\ config \in [AddTruncationMeta : BOOLEAN,
                   MaxBufferSizeBytes : {MaxBufferSizeBytes},
                   FlushTimeoutSec : {FlushTimeoutSec}]
    /\ now = 0
    /\ flushed = NoSlice
    /\ bufferManager = NewBufferManager
    /\ retryManager = NewRetryManager
    /\ keyCounter = 0
    /\ nextId = 1
    /\ cycle = NoCycle
    /\ discarded = {}
    /\ lastOp = NoReport
    /\ HostIdle

\* the buffer contents k AddRecord calls build when none of them overflows
RECURSIVE SeedContents(_)
SeedContents(k) ==
    IF k = 0 THEN {<<>>}
    ELSE {c \o record \o <<NL>> : c \in SeedContents(k - 1), record \in RecordInputs(k)}

Seeds ==
    {c \in UNION {SeedContents(k) : k \in 0..MaxSeedLines} :
        ByteLen(c) <= TruncateCeiling}

\* a BufferManager with ceiling TruncateCeiling holding one of the Seeds
InitTruncate ==
    /\ config \in [AddTruncationMeta : BOOLEAN,
                   MaxBufferSizeBytes : {TruncateCeiling},
                   FlushTimeoutSec : {FlushTimeoutSec}]
    /\ now = 0
    /\ flushed = NoSlice
    /\ bufferManager \in {[buffer |-> c, currentSize |-> ByteLen(c), lastFlushTime |-> 0] :
                             c \in Seeds}
    /\ retryManager = NewRetryManager
    /\ keyCounter = 0
    /\ nextId = MaxSeedLines + 1
    /\ cycle = NoCycle
    /\ discarded = {}
    /\ lastOp = NoReport
    /\ HostIdle

\* BufferManager.truncateByLine run on the current content
DoTruncate ==
    /\ bufferManager' = truncateByLine(bufferManager, config)
    /\ lastOp' = [NoReport EXCEPT !.op = "truncateByLine",
                                  !.payload = bufferManager.buffer]
    /\ UNCHANGED <<hostVars, config, retryManager, keyCounter, nextId, cycle, discarded, now,
                   flushed>>

\* BufferManager.AddRecord called directly, at most maxCalls times in a run
AddRecordStep(maxCalls) ==
    /\ nextId <= maxCalls
    /\ \E record \in RecordInputs(nextId) :
        /\ bufferManager' = AddRecord(bufferManager, record, config)
        /\ lastOp' = [NoReport EXCEPT !.op = "AddRecord", !.record = record,
                         !.payload = bufferManager.buffer,
                         !.overflow = IF Overflows(bufferManager, record, config)
                                      THEN 1 ELSE 0]
    /\ nextId' = nextId + 1
    /\ UNCHANGED <<hostVars, config, retryManager, keyCounter, cycle, discarded, now, flushed>>

DoAddRecord == AddRecordStep(MaxBufferRecords)

DoTimedAddRecord == AddRecordStep(MaxTimedRecords)

\* BufferManager.Flush called directly
DoBufferFlush ==
    /\ bufferManager' = FlushResult(bufferManager).b
    /\ flushed' = FlushResult(bufferManager).slice
    /\ lastOp' = [NoReport EXCEPT !.op = "BufferFlush",
                                  !.payload = FlushResult(bufferManager).slice.data,
                                  !.result = ShouldFlush(bufferManager, config)]
    /\ UNCHANGED <<hostVars, config, retryManager, keyCounter, nextId, cycle, discarded, now>>

\* BufferManager.ShouldFlush called directly
DoShouldFlush ==
    /\ lastOp' = [NoReport EXCEPT !.op = "ShouldFlush",
                                  !.result = ShouldFlush(bufferManager, config)]
    /\ UNCHANGED <<hostVars, config, bufferManager, retryManager, keyCounter, nextId, cycle,
                   discarded, now, flushed>>

\* BufferManager.UpdateFlushTime called directly
DoUpdateFlushTime ==
    /\ bufferManager' = UpdateFlushTime(bufferManager)
    /\ lastOp' = [NoReport EXCEPT !.op = "UpdateFlushTime"]
    /\ UNCHANGED <<hostVars, config, retryManager, keyCounter, nextId, cycle, discarded, now,
                   flushed>>

\* the clock advances between two calls
Tick ==
    /\ now < MaxTime
    /\ now' = now + 1
    /\ lastOp' = [NoReport EXCEPT !.op = "Tick"]
    /\ UNCHANGED <<hostVars, config, bufferManager, retryManager, keyCounter, nextId, cycle,
                   discarded, flushed>>

\* BufferManager.Reset called directly
DoReset ==
    /\ bufferManager' = Reset(bufferManager)
    /\ lastOp' = [NoReport EXCEPT !.op = "Reset"]
    /\ UNCHANGED <<hostVars, config, retryManager, keyCounter, nextId, cycle, discarded, now,
                   flushed>>

\* PluginContext.ProcessRecord(record, tag)
DoProcessRecord ==
    /\ nextId <= MaxRecords
    /\ \E record \in RecordInputs(nextId) :
        /\ bufferManager' = ProcessRecord(bufferManager, retryManager, record, config)
        /\ lastOp' = [NoReport EXCEPT !.op = "ProcessRecord", !.record = record,
                         !.overflow = IF ~IsRetrying(retryManager)
                                         /\ Overflows(bufferManager, record, config)
                                      THEN 1 ELSE 0]
    /\ nextId' = nextId + 1
    /\ UNCHANGED <<hostVars, config, retryManager, keyCounter, cycle, discarded, now, flushed>>

\* PluginContext.FlushIfNeeded(tag)
DoFlushIfNeeded ==
    \E compFails \in BOOLEAN :
    \E err \in IF compFails THEN {NoError} ELSE WriteErrors \cup {NoError} :
        LET res == FlushIfNeeded(bufferManager, retryManager, keyCounter, cycle,
                                 config, compFails, err)
        IN  /\ keyCounter + res.kc <= MaxKeys
            /\ bufferManager' = res.b
            /\ retryManager' = res.r
            /\ keyCounter' = keyCounter + res.kc
            /\ cycle' = res.cyc
            /\ discarded' = discarded \cup res.disc
            /\ lastOp' = res.rep
            /\ UNCHANGED <<hostVars, config, nextId, now, flushed>>

\* PluginContext.Flush(tag)
DoFlush ==
    \E compFails \in BOOLEAN :
    \E err \in IF compFails THEN {NoError} ELSE WriteErrors \cup {NoError} :
        LET res == PluginContextFlush(bufferManager, retryManager, keyCounter, cycle,
                                      compFails, err)
        IN  /\ keyCounter + res.kc <= MaxKeys
            /\ bufferManager' = res.b
            /\ retryManager' = res.r
            /\ keyCounter' = keyCounter + res.kc
            /\ cycle' = res.cyc
            /\ discarded' = discarded \cup res.disc
            /\ lastOp' = res.rep
            /\ UNCHANGED <<hostVars, config, nextId, now, flushed>>

Next ==
    \/ DoProcessRecord
    \/ DoFlush

\* the program as its host drives it: records and flushes through PluginContext
Spec == Init /\ [][Next]_vars

\* a FluentBitPlugin with output buffer size TruncateCeiling; the adapter leaves
\* AddTruncationMeta at its zero value
InitPlugin ==
    /\ config = [AddTruncationMeta |-> FALSE, MaxBufferSizeBytes |-> TruncateCeiling,
                 FlushTimeoutSec |-> FlushTimeoutSec]
    /\ now = 0
    /\ flushed = NoSlice
    /\ bufferManager = NewBufferManager
    /\ retryManager = NewRetryManager
    /\ keyCounter = 0
    /\ nextId = 1
    /\ cycle = NoCycle
    /\ discarded = {}
    /\ lastOp = NoReport
    /\ HostIdle

\* FluentBitPlugin.processRecord while compression and every storage Write
\* succeed
DoProcessRecordHealthy ==
    /\ nextId <= MaxPluginRecords
    /\ \E record \in PluginRecords(nextId) :
        LET res == processRecord(bufferManager, retryManager, plugin, keyCounter, cycle,
                                 config, record, FALSE, NoError)
        IN  /\ bufferManager' = res.b
            /\ retryManager' = res.r
            /\ plugin' = res.p
            /\ keyCounter' = keyCounter + res.kc
            /\ cycle' = res.cyc
            /\ discarded' = discarded \cup res.disc
            /\ lastOp' = res.rep
    /\ nextId' = nextId + 1
    /\ UNCHANGED <<config, now, flushed, threads, mutex, legacy>>

NextHealthy ==
    \/ DoProcessRecordHealthy
    \/ Tick

\* the adapter fed by its host while the storage is healthy
SpecHealthy == InitPlugin /\ [][NextHealthy]_vars

\* the contents up to MaxTriggerRecords AddRecord calls build without overflow
TriggerSeeds ==
    {c \in UNION {SeedContents(k) : k \in 0..MaxTriggerRecords} :
        ByteLen(c) <= MaxBufferSizeBytes}

\* the retry states a PluginContext can be in between two calls: idle, or
\* retrying after n failed flushes, with the key of a failed write or with
\* no key after compression failures
RetryStates ==
    {NewRetryManager} \cup
    {[NewRetryManager EXCEPT !.retryCount = n, !.isRetrying = TRUE, !.objectKey = k] :
        n \in 1..(maxRetryCount + 1), k \in 0..1}

\* a PluginContext some time after its last flush, holding records, idle or
\* retrying
InitFlushIfNeeded ==
    /\ config \in [AddTruncationMeta : BOOLEAN,
                   MaxBufferSizeBytes : {MaxBufferSizeBytes},
                   FlushTimeoutSec : {FlushTimeoutSec}]
    /\ now \in 0..MaxTime
    /\ flushed = NoSlice
    /\ bufferManager \in {[buffer |-> c, currentSize |-> ByteLen(c), lastFlushTime |-> 0] :
                             c \in TriggerSeeds}
    /\ retryManager \in RetryStates
    /\ retryManager.isRetrying => bufferManager.buffer # <<>>
    /\ keyCounter = retryManager.objectKey
    /\ nextId = MaxTriggerRecords + 1
    /\ cycle = [keys |-> IF retryManager.objectKey = 0 THEN {}
                          ELSE {retryManager.objectKey},
                 writes |-> IF retryManager.objectKey = 0 THEN 0 ELSE 1,
                 first |-> IF retryManager.isRetrying THEN bufferManager.buffer
                           ELSE <<>>]
    /\ discarded = {}
    /\ lastOp = NoReport
    /\ HostIdle

NextFlushIfNeeded == DoFlushIfNeeded

\* FlushIfNeeded called on every such PluginContext
SpecFlushIfNeeded == InitFlushIfNeeded /\ [][NextFlushIfNeeded]_vars

\* PluginContext.compressData called directly on the bytes of the buffer
DoCompressData ==
    /\ lastOp' = [NoReport EXCEPT !.op = "compressData",
                                  !.payload = Flush(bufferManager),
                                  !.body = compressData(Flush(bufferManager))]
    /\ UNCHANGED <<hostVars, config, bufferManager, retryManager, keyCounter, nextId,
                   cycle, discarded, now, flushed>>

NextCompress ==
    \/ DoFlush
    \/ DoCompressData

\* flushes and compressions of a PluginContext holding records, idle or retrying
SpecCompress == InitFlushIfNeeded /\ [][NextCompress]_vars

\* the contexts flushBuffer can be called on: lines in the buffer or none,
\* idle or retrying after n failures, with the key of a failed Write or, after
\* compression failures alone, with no key
LegacySeeds ==
    {[NewLegacyContext EXCEPT !.Buffer = c, !.CurrentBufferSize = ByteLen(c),
                              !.MaxRetryCount = m, !.RetryCount = n,
                              !.IsRetrying = (n > 0), !.RetryObjectKey = k] :
        c \in TriggerSeeds, m \in 0..(maxRetryCount + 1),
        n \in 0..(MaxLegacyRetries - 1), k \in 0..1} 

\* a legacy PluginContext between two flushBuffer calls
InitLegacyFlush ==
    /\ config \in [AddTruncationMeta : {FALSE},
                   MaxBufferSizeBytes : {MaxBufferSizeBytes},
                   FlushTimeoutSec : {FlushTimeoutSec}]
    /\ now = 0
    /\ flushed = NoSlice
    /\ bufferManager = NewBufferManager
    /\ retryManager = NewRetryManager
    /\ nextId = MaxTriggerRecords + 1
    /\ cycle = NoCycle
    /\ discarded = {}
    /\ lastOp = NoReport
    /\ plugin = NewFluentBitPlugin
    /\ threads = NoThreads
    /\ mutex = Unlocked
    /\ legacy \in {v \in LegacySeeds :
                     /\ v.RetryCount = 0 => v.RetryObjectKey = 0
                     /\ v.IsRetrying => v.Buffer # <<>>}
    /\ keyCounter = legacy.RetryObjectKey

\* flushBuffer(values, tag) called on the legacy context
DoFlushBuffer ==
    /\ legacy.RetryCount <= MaxLegacyRetries
    /\ \E compFails \in BOOLEAN :
       \E err \in IF compFails THEN {NoError} ELSE WriteErrors \cup {NoError} :
           LET res == flushBuffer(legacy, keyCounter, compFails, err)
           IN  /\ res.kc <= MaxKeys
               /\ legacy' = res.v
               /\ keyCounter' = res.kc
               /\ lastOp' = res.rep
    /\ UNCHANGED <<config, bufferManager, retryManager, nextId, cycle, discarded, now,
                   flushed, plugin, threads, mutex>>

NextLegacyFlush == DoFlushBuffer

\* flushBuffer calls on a legacy context holding lines, idle or retrying
SpecLegacyFlush == InitLegacyFlush /\ [][NextLegacyFlush]_vars

\* what one flushBuffer call of a chunk delivery meets: success, a 503, or a
\* "permission denied"
LegacyOutcomes ==
    {[compFails |-> FALSE, err |-> e] :
        e \in {NoError,
               [nil |-> FALSE, temporary |-> FALSE, code |-> 503, msg |-> {}],
               [nil |-> FALSE, temporary |-> FALSE, code |-> 0, msg |-> {"permission"}]}}

\* the chunks the host delivers: one or two one-byte JSON records
LegacyChunks(id) ==
    {<< <<Chunk(id, 1, TRUE)>> >>,
     << <<Chunk(id, 1, TRUE)>>, <<Chunk(id + 1, 1, TRUE)>> >>}

\* the host calls FLBPluginFlushCtx: with the chunk it was told to retry, or
\* with a new chunk
DoFLBPluginFlushCtx ==
    /\ legacy.deliveries < MaxDeliveries
    /\ \E records \in IF legacy.chunk # <<>> THEN {legacy.chunk}
                       ELSE LegacyChunks(nextId) :
       \E outcomes \in [1..(Len(records) + 1) -> LegacyOutcomes] :
           LET res == FLBPluginFlushCtx(legacy, keyCounter, records, outcomes)
           IN  /\ legacy' = [res.v EXCEPT
                                 !.chunk = IF res.code = "FLB_RETRY" THEN records
                                           ELSE <<>>,
                                 !.deliveries = @ + 1]
               /\ keyCounter' = res.kc
               /\ nextId' = IF legacy.chunk # <<>> THEN nextId
                             ELSE nextId + Len(records)
               /\ lastOp' = [NoReport EXCEPT !.op = "FLBPluginFlushCtx",
                                             !.code = res.code,
                                             !.result = (legacy.chunk # <<>>)]
    /\ UNCHANGED <<config, bufferManager, retryManager, cycle, discarded, now,
                   flushed, plugin, threads, mutex>>

NextLegacy ==
    \/ DoFLBPluginFlushCtx
    \/ Tick

\* the legacy plugin as its host drives it
SpecLegacy == Init /\ [][NextLegacy]_vars

\* the calls made on a BufferManager shared by goroutines
BufferManagerOps == {"AddRecord", "BufferFlush", "Reset", "Size", "IsFull", "ShouldFlush"}

\* the calls made on a plugin shared by goroutines
PluginOps == {"processRecord", "ProcessRecord", "AddRecord", "Flush", "FlushIfNeeded"}

\* the errors storageClient.Write returns to the goroutines: none, a 503, a
\* "permission denied"
ParallelErrors ==
    {NoError,
     [nil |-> FALSE, temporary |-> FALSE, code |-> 503, msg |-> {}],
     [nil |-> FALSE, temporary |-> FALSE, code |-> 0, msg |-> {"permission"}]}

\* an idle goroutine starts one of the calls ops on one of the records, while
\* fewer than last calls were made
CallStep(t, ops, records, last) ==
    /\ threads[t].pc = "idle"
    /\ nextId <= last
    /\ \E op \in ops :
       \E record \in IF op \in {"AddRecord", "ProcessRecord", "processRecord"}
                      THEN records ELSE {<<>>} :
           threads' = [threads EXCEPT ![t] = [IdleThread EXCEPT !.pc = EntrySite(op),
                                                               !.op = op,
                                                               !.record = record]]
    /\ nextId' = nextId + 1
    /\ UNCHANGED <<config, bufferManager, retryManager, keyCounter, cycle, discarded,
                   lastOp, now, flushed, plugin, mutex, legacy>>

DoCallBufferManager ==
    \E t \in Threads : CallStep(t, BufferManagerOps, PluginRecords(nextId), MaxCalls)

\* the buffers the goroutines find: empty, one record, two records
ParallelContents ==
    {<<>>,
     <<Chunk(1, 1, TRUE), NL>>,
     <<Chunk(1, 1, TRUE), NL, Chunk(2, 1, TRUE), NL>>}

\* the retry states the goroutines find: idle, retrying after one failed
\* Write, past the retry limit
ParallelRetryStates ==
    {NewRetryManager,
     [NewRetryManager EXCEPT !.retryCount = 1, !.isRetrying = TRUE, !.objectKey = 1],
     [NewRetryManager EXCEPT !.retryCount = maxRetryCount + 1, !.isRetrying = TRUE,
                             !.objectKey = 1]}

\* a plugin holding records, idle or retrying, before the goroutines call
InitParallel ==
    /\ config = [AddTruncationMeta |-> FALSE, MaxBufferSizeBytes |-> MaxBufferSizeBytes,
                 FlushTimeoutSec |-> FlushTimeoutSec]
    /\ now = 0
    /\ flushed = NoSlice
    /\ bufferManager \in {[buffer |-> c, currentSize |-> ByteLen(c), lastFlushTime |-> 0] :
                             c \in ParallelContents}
    /\ retryManager \in ParallelRetryStates
    /\ retryManager.isRetrying => bufferManager.buffer # <<>>
    /\ keyCounter = retryManager.objectKey
    /\ nextId = 3
    /\ cycle = NoCycle
    /\ discarded = {}
    /\ lastOp = NoReport
    /\ HostIdle

\* each goroutine makes one call on the plugin, with a one-byte record
DoCallPlugin ==
    \E t \in Threads :
        CallStep(t, PluginOps, {<<Chunk(nextId, 1, TRUE)>>}, 2 + Cardinality(Threads))

\* a goroutine locks the mutex of the call it is entering
DoLock ==
    \E t \in Threads :
        LET th == threads[t]
        IN  /\ th.pc # "idle" /\ ~th.in
            /\ SiteLock(th.pc) # "none"
            /\ CanLock(mutex, SiteLock(th.pc))
            /\ mutex' = [mutex EXCEPT ![SiteLock(th.pc)] = t]
            /\ threads' = [threads EXCEPT ![t] =
                               [th EXCEPT !.in = TRUE,
                                          !.before = IF th.pc = "AddRecord"
                                                     THEN bufferManager ELSE @]]
            /\ UNCHANGED <<config, bufferManager, retryManager, keyCounter, nextId,
                           cycle, discarded, lastOp, now, flushed, plugin, legacy>>

\* a goroutine runs the statements of the call site it is at, up to the next
\* Lock or to the return
DoStep ==
    \E t \in Threads :
        LET th == threads[t]
            pc == th.pc
        IN  /\ pc # "idle"
            /\ th.in \/ SiteLock(pc) = "none"
            /\ \E compFails \in IF pc = "Flush.compressData" THEN BOOLEAN ELSE {FALSE} :
               \E err \in IF pc = "Flush.Write" THEN ParallelErrors ELSE {NoError} :
                   LET flag == SiteFlag(pc, th, bufferManager, retryManager, plugin,
                                        config, compFails, err)
                       th1 == SiteLocals(pc, th, bufferManager, retryManager,
                                         keyCounter, err)
                       next == SiteNext(pc, th1, flag)
                   IN  threads' = [threads EXCEPT ![t] =
                                      IF next = "idle" THEN IdleThread
                                      ELSE [th1 EXCEPT !.pc = next, !.in = FALSE]]
            /\ bufferManager' = SiteBuffer(pc, th, bufferManager, config)
            /\ retryManager' = SiteRetry(pc, th, retryManager)
            /\ keyCounter' = IF pc = "Flush.generateObjectKey" THEN keyCounter + 1
                             ELSE keyCounter
            /\ plugin' = IF pc = "processRecord.Unlock" /\ th.flushResult = "ok"
                         THEN [plugin EXCEPT !.lastFlushTime = now] ELSE plugin
            /\ mutex' = IF SiteUnlock(pc) = "none" THEN mutex
                        ELSE [mutex EXCEPT ![SiteUnlock(pc)] = 0]
            /\ UNCHANGED <<config, nextId, cycle, discarded, lastOp, now, flushed,
                           legacy>>

\* the calls goroutines make on the adapter
AdapterOps == {"processRecord", "FlushPlugin"}

\* a FluentBitPlugin built at time 0 holding records, idle or retrying, before
\* the goroutines call: at once, or when the flush interval has passed
InitAdapter ==
    /\ config = [AddTruncationMeta |-> FALSE, MaxBufferSizeBytes |-> MaxBufferSizeBytes,
                 FlushTimeoutSec |-> FlushTimeoutSec]
    /\ now \in {0, FlushTimeoutSec}
    /\ flushed = NoSlice
    /\ bufferManager \in {[buffer |-> c, currentSize |-> ByteLen(c), lastFlushTime |-> 0] :
                             c \in ParallelContents}
    /\ retryManager \in ParallelRetryStates
    /\ retryManager.isRetrying => bufferManager.buffer # <<>>
    /\ keyCounter = retryManager.objectKey
    /\ nextId = 3
    /\ cycle = NoCycle
    /\ discarded = {}
    /\ lastOp = NoReport
    /\ plugin = [lastFlushTime |-> 0]
    /\ threads = NoThreads
    /\ mutex = Unlocked
    /\ legacy = NewLegacyContext

\* each goroutine makes one call on the adapter, with a one-byte record
DoCallAdapter ==
    \E t \in Threads :
        CallStep(t, AdapterOps, {<<Chunk(nextId, 1, TRUE)>>}, 2 + Cardinality(Threads))

NextAdapter ==
    \/ DoCallAdapter
    \/ DoLock
    \/ DoStep

\* goroutines calling into one plugin through the adapter only
SpecAdapter == InitAdapter /\ [][NextAdapter]_vars

NextConcurrent ==
    \/ DoCallBufferManager
    \/ DoLock
    \/ DoStep

\* goroutines calling the methods of one BufferManager
SpecConcurrent == Init /\ [][NextConcurrent]_vars

NextParallel ==
    \/ DoCallPlugin
    \/ DoLock
    \/ DoStep

\* goroutines calling into one plugin: producers and flushers
SpecParallel == InitParallel /\ [][NextParallel]_vars

NextBuffer ==
    \/ DoAddRecord
    \/ DoBufferFlush
    \/ DoReset

\* the BufferManager alone, driven through its public methods
SpecBuffer == Init /\ [][NextBuffer]_vars

NextTimed ==
    \/ DoTimedAddRecord
    \/ DoBufferFlush
    \/ DoReset
    \/ DoShouldFlush
    \/ DoUpdateFlushTime
    \/ Tick

\* RetryManager.IncrementRetryCount called directly
DoIncrementRetryCount ==
    /\ retryManager.retryCount <= maxRetryCount
    /\ retryManager' = IncrementRetryCount(retryManager)
    /\ lastOp' = [NoReport EXCEPT !.op = "IncrementRetryCount"]
    /\ UNCHANGED <<hostVars, config, bufferManager, keyCounter, nextId, cycle, discarded, now,
                   flushed>>

\* RetryManager.ShouldRetry(err) called directly
DoShouldRetry ==
    /\ \E err \in Errors \cup {NoError} :
        lastOp' = [NoReport EXCEPT !.op = "ShouldRetry", !.err = err,
                                  !.result = ShouldRetry(retryManager, err)]
    /\ UNCHANGED <<hostVars, config, bufferManager, retryManager, keyCounter, nextId, cycle,
                   discarded, now, flushed>>

\* isRetryableError(err) of buffer_manager.go, err non-nil as at its call site
DoIsRetryableError ==
    /\ \E err \in Errors :
        lastOp' = [NoReport EXCEPT !.op = "isRetryableError", !.err = err,
                                  !.result = isRetryableError(err)]
    /\ UNCHANGED <<hostVars, config, bufferManager, retryManager, keyCounter, nextId, cycle,
                   discarded, now, flushed>>

\* isRetryableError(err) of out_gcs.go
DoLegacyIsRetryableError ==
    /\ \E err \in Errors \cup {NoError} :
        lastOp' = [NoReport EXCEPT !.op = "legacyIsRetryableError", !.err = err,
                                  !.result = legacyIsRetryableError(err)]
    /\ UNCHANGED <<hostVars, config, bufferManager, retryManager, keyCounter, nextId, cycle,
                   discarded, now, flushed>>

\* the strategies a RetryManager is built with
Strategies ==
    [initialBackoff : 1..MaxInitialBackoff, maxBackoff : 1..MaxBackoffCeiling,
     num : (0 - FactorDen)..MaxFactorNum, den : {FactorDen}]

\* a RetryManager built with any of the Strategies
InitBackoff ==
    /\ config \in [AddTruncationMeta : BOOLEAN,
                   MaxBufferSizeBytes : {MaxBufferSizeBytes},
                   FlushTimeoutSec : {FlushTimeoutSec}]
    /\ now = 0
    /\ flushed = NoSlice
    /\ bufferManager = NewBufferManager
    /\ retryManager \in {[NewRetryManager EXCEPT !.backoffStrategy = e] : e \in Strategies}
    /\ keyCounter = 0
    /\ nextId = 1
    /\ cycle = NoCycle
    /\ discarded = {}
    /\ lastOp = NoReport
    /\ HostIdle

\* RetryManager.GetBackoffDuration called directly
DoGetBackoffDuration ==
    /\ lastOp' = [NoReport EXCEPT !.op = "GetBackoffDuration",
                                  !.ret = GetBackoffDuration(retryManager)]
    /\ UNCHANGED <<hostVars, config, bufferManager, retryManager, keyCounter, nextId, cycle,
                   discarded, now, flushed>>

\* backoffStrategy.NextBackoff(n) called directly
DoNextBackoff ==
    /\ \E n \in 0..MaxAttempts :
        lastOp' = [NoReport EXCEPT !.op = "NextBackoff", !.arg = n,
                     !.ret = NextBackoff(retryManager.backoffStrategy, n)]
    /\ UNCHANGED <<hostVars, config, bufferManager, retryManager, keyCounter, nextId, cycle,
                   discarded, now, flushed>>

NextBackoffStep ==
    \/ DoIncrementRetryCount
    \/ DoGetBackoffDuration
    \/ DoNextBackoff

\* the backoff computation, on every strategy and every attempt number
SpecBackoff == InitBackoff /\ [][NextBackoffStep]_vars

NextClassify ==
    \/ DoIncrementRetryCount
    \/ DoShouldRetry
    \/ DoIsRetryableError
    \/ DoLegacyIsRetryableError

\* the error classification, on every error and every retry count
SpecClassify == Init /\ [][NextClassify]_vars

NextTruncate == DoTruncate

\* truncateByLine on every content of up to MaxSeedLines lines
SpecTruncate == InitTruncate /\ [][NextTruncate]_vars

\* the BufferManager and the clock: the flush timeout
SpecTimed == Init /\ [][NextTimed]_vars

\* ---- properties ----
\* the lines of the buffer content, as bytes.Split sees them
Lines == Split(bufferManager.buffer)

NonEmptyLines == {i \in 1..Len(Lines) : Len(Lines[i]) > 0}

\* C1: after every AddRecord call, Size() <= MaxBufferSizeBytes
C1_SizeBound ==
    lastOp.op = "AddRecord" => Size(bufferManager) <= config.MaxBufferSizeBytes

Wrote == lastOp.op = "Flush" /\ lastOp.wrote

\* C3: a Write failing with a retryable error while retryCount < maxRetryCount
\* leaves buffer content and size, adds exactly 1 to retryCount, sets
\* isRetrying, saves the key that Write used, and Flush returns an error
C3_RetryableFailure ==
    [][(/\ lastOp'.op = "Flush" /\ lastOp'.wrote
        /\ ~lastOp'.err.nil /\ isRetryableError(lastOp'.err)
        /\ retryManager.retryCount < maxRetryCount)
       => (/\ bufferManager' = bufferManager
           /\ retryManager'.retryCount = retryManager.retryCount + 1
           /\ retryManager'.isRetrying
           /\ lastOp'.key # 0
           /\ retryManager'.objectKey = lastOp'.key
           /\ ~lastOp'.errNil
           /\ lastOp'.ret = -1)]_vars

\* a retryable failure met while already retrying
C3_Witness ==
    /\ Wrote /\ ~lastOp.err.nil /\ isRetryableError(lastOp.err)
    /\ lastOp.cycleWrites = 2
    /\ retryManager.isRetrying /\ retryManager.retryCount = 2
    /\ bufferManager.buffer = lastOp.payload

\* C4: all Write calls of one flush cycle receive the same object key
C4_KeyStability ==
    /\ Cardinality(cycle.keys) <= 1
    /\ Wrote => lastOp.cycleKeys = {lastOp.key}

\* two failed Writes and a successful third one, retryCount back to 0
C4_Witness ==
    /\ Wrote /\ lastOp.err.nil
    /\ lastOp.cycleWrites = 3
    /\ retryManager.retryCount = 0

\* C5: a Write failing with a non-retryable error resets the buffer and the
\* retry state at once and returns the error, and no later Write carries a
\* record that was discarded
C5_FatalDiscard ==
    [][/\ (/\ lastOp'.op = "Flush" /\ lastOp'.wrote
           /\ ~lastOp'.err.nil /\ ~isRetryableError(lastOp'.err))
          => (/\ bufferManager'.buffer = <<>>
              /\ Size(bufferManager') = 0
              /\ retryManager' = NewRetryManager
              /\ ~lastOp'.errNil
              /\ IdsOf(lastOp'.payload) \subseteq discarded')
       /\ (lastOp'.op = "Flush" /\ lastOp'.wrote)
          => IdsOf(lastOp'.payload) \cap discarded = {}]_vars

\* a "permission denied" on the first Write of a cycle
C5_Witness ==
    /\ Wrote /\ ~lastOp.err.nil /\ "permission" \in lastOp.err.msg
    /\ ~lastOp.err.temporary
    /\ lastOp.cycleWrites = 1
    /\ IdsOf(lastOp.payload) # {}
    /\ bufferManager.buffer = <<>>

\* C6: the Flush that discards the buffer because retryable failures exhausted
\* the retry limit returns nil and records one max-retries-reached event
C6_ExhaustionIsSuccess ==
    (/\ Wrote /\ ~lastOp.err.nil /\ isRetryableError(lastOp.err)
     /\ ~retryManager.isRetrying)
    => (lastOp.errNil /\ lastOp.maxRetries = 1)

\* C7: a Flush entered with retryCount > maxRetryCount resets the buffer and
\* the retry state, records max-retries-reached, returns (0, nil), writes nothing
C7_MaxRetriesAtEntry ==
    [][(lastOp'.op = "Flush" /\ GetRetryCount(retryManager) > maxRetryCount)
       => (/\ bufferManager'.buffer = <<>>
           /\ Size(bufferManager') = 0
           /\ retryManager' = NewRetryManager
           /\ lastOp'.maxRetries = 1
           /\ lastOp'.ret = 0 /\ lastOp'.errNil
           /\ ~lastOp'.wrote)]_vars

C7_Witness ==
    /\ lastOp.op = "Flush" /\ lastOp.maxRetries = 1
    /\ ~lastOp.wrote
    /\ nextId > 1

\* C8: after a successful Write the buffer is empty, Size() = 0, retryCount = 0,
\* the saved key is empty, IsRetrying() is false and Flush returned (0, nil)
C8_Success ==
    (Wrote /\ lastOp.err.nil)
    => (/\ bufferManager.buffer = <<>>
        /\ Size(bufferManager) = 0
        /\ retryManager.retryCount = 0
        /\ retryManager.objectKey = 0
        /\ ~retryManager.isRetrying
        /\ lastOp.ret = 0 /\ lastOp.errNil)

\* a success that ends a retry
C8_Witness ==
    /\ Wrote /\ lastOp.err.nil
    /\ lastOp.cycleWrites = 2
    /\ lastOp.payload # <<>>

C10_ProcessRecord ==
    [][lastOp'.op = "ProcessRecord"
       => /\ lastOp'.errNil
          /\ retryManager' = retryManager
          /\ IF retryManager.isRetrying
             THEN bufferManager' = bufferManager
             ELSE LET buf == bufferManager'.buffer
                      added == lastOp'.record \o <<NL>>
                  IN  /\ Len(buf) >= Len(added)
                      /\ SubSeq(buf, Len(buf) - Len(added) + 1, Len(buf)) = added
                      /\ Size(bufferManager') = ByteLen(buf)
                      /\ lastOp'.overflow = 0
                         => buf = bufferManager.buffer \o added]_vars

\* a record dropped on the floor while a retry is pending
C10_Witness ==
    /\ lastOp.op = "ProcessRecord" /\ lastOp.record # <<>>
    /\ retryManager.isRetrying
    /\ bufferManager.buffer # <<>>
    /\ lastOp.record[1].id \notin IdsOf(bufferManager.buffer)

\* ---- BufferManager.Flush, ShouldFlush and the overflow notification ----

C16_OverflowNotification ==
    [][lastOp'.op = "AddRecord"
       => LET record == lastOp'.record
              over == bufferManager.currentSize + ByteLen(record) + 1
                         > config.MaxBufferSizeBytes
          IN  /\ lastOp'.overflow = (IF over THEN 1 ELSE 0)
              /\ bufferManager'.buffer =
                    (IF over THEN truncateByLine(bufferManager, config).buffer
                             ELSE bufferManager.buffer) \o record \o <<NL>>]_vars

\* an AddRecord that fired the callback after a truncation that dropped a line
C16_Witness ==
    /\ lastOp.op = "AddRecord" /\ lastOp.overflow = 1
    /\ lastOp.record # <<>>
    /\ Len(Lines) >= 2
    /\ \E id \in 1..(nextId - 1) : id \notin IdsOf(bufferManager.buffer)

\* C17 as stated: ShouldFlush is true exactly when the buffer is non-empty and
\* the time since lastFlushTime exceeds the timeout
C17_ExceedsTimeout ==
    lastOp.op = "ShouldFlush"
    => lastOp.result = (/\ bufferManager.buffer # <<>>
                        /\ now - bufferManager.lastFlushTime > config.FlushTimeoutSec)

\* C17 amended: ShouldFlush is true exactly when the buffer is non-empty and
\* the time since lastFlushTime (set at creation, by Reset and by
\* UpdateFlushTime) is at least the timeout; BufferManager.Flush leaves the
\* answer as it was; right after Reset the answer is false
C17_ShouldFlush ==
    /\ lastOp.op = "ShouldFlush"
       => lastOp.result = (/\ bufferManager.buffer # <<>>
                           /\ now - bufferManager.lastFlushTime
                                 >= config.FlushTimeoutSec)
    /\ lastOp.op = "BufferFlush"
       => ShouldFlush(bufferManager, config) = lastOp.result
    /\ lastOp.op = "Reset"
       => /\ ~ShouldFlush(bufferManager, config)
          /\ bufferManager.lastFlushTime = now
    /\ lastOp.op = "UpdateFlushTime" => bufferManager.lastFlushTime = now
    /\ lastOp.op \in {"AddRecord", "ShouldFlush", "BufferFlush"}
       => bufferManager.lastFlushTime <= now

\* ShouldFlush answered true with exactly the timeout elapsed
C17_Witness ==
    /\ lastOp.op = "ShouldFlush" /\ lastOp.result
    /\ now - bufferManager.lastFlushTime = config.FlushTimeoutSec

\* ---- truncateByLine ----
Before == lastOp.payload

After == bufferManager.buffer

\* the non-empty lines of a content, oldest first
LinesOf(data) == SelectSeq(Split(data), LAMBDA l : Len(l) > 0)

ValidLinesOf(data) == SelectSeq(LinesOf(data), jsonValid)

\* the lines of the content after a truncation but the metadata line the
\* truncation put in front of them
Kept ==
    LET al == LinesOf(After)
    IN  IF /\ config.AddTruncationMeta /\ al # <<>>
           /\ al[1][1].t = "meta" /\ al[1][1].retained = Len(al) - 1
        THEN Tail(al) ELSE al

RECURSIVE IsSubseq(_, _)
IsSubseq(s, t) ==
    IF s = <<>> THEN TRUE
    ELSE IF t = <<>> THEN FALSE
    ELSE IF Head(s) = Head(t) THEN IsSubseq(Tail(s), Tail(t))
    ELSE IsSubseq(s, Tail(t))

RECURSIVE LinesSize(_)
LinesSize(lines) ==
    IF lines = <<>> THEN 0 ELSE ByteLen(Head(lines)) + 1 + LinesSize(Tail(lines))

C13_RetainsSuffix ==
    lastOp.op = "truncateByLine"
    => LET vb == ValidLinesOf(Before)
           retained(i) == \E j \in 1..Len(Kept) : Kept[j] = vb[i]
       IN  \A i \in 1..Len(vb) : \A j \in (i + 1)..Len(vb) :
               retained(i) => retained(j)

\* C14: truncating a content with at least one valid JSON line leaves a
\* non-empty content, and when more than one line is retained the retained
\* lines, each with its newline, take at most MaxBufferSizeBytes / 2 bytes
C14_SurvivorAndBudget ==
    lastOp.op = "truncateByLine" /\ ValidLinesOf(Before) # <<>>
    => /\ After # <<>>
       /\ Len(Kept) >= 1
       /\ Len(Kept) > 1 => LinesSize(Kept) <= config.MaxBufferSizeBytes \div 2

\* a truncation that dropped a valid line and retained two
C14_Witness ==
    /\ lastOp.op = "truncateByLine"
    /\ Len(Kept) = 2
    /\ Len(ValidLinesOf(Before)) > 2

\* the metadata contract of one truncation, dropped lines being counted
\* against nb lines of the content before: nothing dropped and nothing
\* written; or lines dropped with the flag off and nothing written; or lines
\* dropped with the flag on and a first line carrying the two counts
MetaContract(nb) ==
    LET al == LinesOf(After)
    IN  /\ \/ Len(al) = nb /\ IsSubseq(al, LinesOf(Before))
           \/ /\ ~config.AddTruncationMeta
              /\ Len(al) < nb /\ IsSubseq(al, LinesOf(Before))
           \/ /\ config.AddTruncationMeta
              /\ Len(al) >= 1 /\ Len(al) - 1 < nb
              /\ al[1][1].t = "meta"
              /\ al[1][1].dropped = nb - (Len(al) - 1)
              /\ al[1][1].retained = Len(al) - 1
              /\ IsSubseq(Tail(al), LinesOf(Before))
        /\ ~config.AddTruncationMeta
           => \A i \in 1..Len(After) : After[i].t # "meta"

AuthKeywords == {"permission", "auth", "credential"}

Status5xxOr429(err) == (err.code >= 500 /\ err.code < 600) \/ err.code = 429

\* C18 as stated: below maxRetryCount ShouldRetry is true for every error
\* with Temporary(), with a 5xx or 429 status, with 'connection' or 'timeout'
\* in its message, or with none of the known keywords; it is false for nil
\* and from maxRetryCount on
C18_TransientKeywords ==
    lastOp.op = "ShouldRetry"
    => LET err == lastOp.err
       IN  /\ err.nil => ~lastOp.result
           /\ retryManager.retryCount >= maxRetryCount => ~lastOp.result
           /\ /\ ~err.nil /\ retryManager.retryCount < maxRetryCount
              /\ \/ err.temporary
                 \/ Status5xxOr429(err)
                 \/ "connection" \in err.msg \/ "timeout" \in err.msg
                 \/ err.msg \cap Keywords = {}
              => lastOp.result

\* C18 amended: ShouldRetry is true exactly for a non-nil error below
\* maxRetryCount that has Temporary(), or a 5xx or 429 status, or no
\* permission / auth / credential keyword in its message
C18_ShouldRetry ==
    lastOp.op = "ShouldRetry"
    => LET err == lastOp.err
       IN  lastOp.result =
             (/\ ~err.nil
              /\ retryManager.retryCount < maxRetryCount
              /\ \/ err.temporary
                 \/ Status5xxOr429(err)
                 \/ err.msg \cap AuthKeywords = {})

\* the last allowed attempt, granted to a plain "connection" error
C18_Witness ==
    /\ lastOp.op = "ShouldRetry" /\ lastOp.result
    /\ lastOp.err.msg = {"connection"}
    /\ ~lastOp.err.temporary /\ lastOp.err.code = 0
    /\ retryManager.retryCount = maxRetryCount - 1

\* C19 as stated: an error whose message has a permission, auth or
\* credential keyword is non-retryable for both classifiers, whatever else
\* the error carries
C19_AuthNeverRetryable ==
    /\ lastOp.op \in {"isRetryableError", "legacyIsRetryableError"}
    /\ lastOp.err.msg \cap AuthKeywords # {}
    => ~lastOp.result

\* C19 amended: such an error is non-retryable for isRetryableError unless it
\* has Temporary() or a 5xx or 429 status, and then ShouldRetry refuses it;
\* it is non-retryable for the legacy classifier unless its message also has
\* 'connection', 'timeout' or 'temporary'
C19_AuthUnlessTransient ==
    LET err == lastOp.err
    IN  /\ /\ lastOp.op \in {"isRetryableError", "ShouldRetry"}
           /\ err.msg \cap AuthKeywords # {}
           /\ ~err.temporary /\ ~Status5xxOr429(err)
           => ~lastOp.result
        /\ /\ lastOp.op = "legacyIsRetryableError"
           /\ err.msg \cap AuthKeywords # {}
           /\ err.msg \cap {"connection", "timeout", "temporary"} = {}
           => ~lastOp.result

\* a "credential" error that also says "connection", refused by isRetryableError
C19_Witness ==
    /\ lastOp.op = "isRetryableError" /\ ~lastOp.result
    /\ lastOp.err.msg = {"credential", "connection"}

\* ---- backoff ----
\* min(initial * factor^n, maxBackoff) as a whole duration
MinFormula(e, n) ==
    LET vnum == e.initialBackoff * Pow(e.num, n)
        vden == Pow(e.den, n)
    IN  IF vnum <= e.maxBackoff * vden THEN TruncDiv(vnum, vden) ELSE e.maxBackoff

\* C20 as stated: for every n >= 0 and every strategy NextBackoff(n) is
\* min(initial * factor^n, maxBackoff), NextBackoff(0) is initial, and
\* GetBackoffDuration() is NextBackoff(retryCount)
C20_EveryStrategy ==
    LET e == retryManager.backoffStrategy
    IN  /\ lastOp.op = "NextBackoff" => lastOp.ret = MinFormula(e, lastOp.arg)
        /\ lastOp.op = "NextBackoff" /\ lastOp.arg = 0 => lastOp.ret = e.initialBackoff
        /\ lastOp.op = "GetBackoffDuration"
           => lastOp.ret = NextBackoff(e, retryManager.retryCount)

\* C20 amended: the formula holds for the strategies with initial <=
\* maxBackoff and factor >= 0; NextBackoff(0) is initial for every strategy;
\* GetBackoffDuration() is NextBackoff(retryCount)
C20_OrderedStrategy ==
    LET e == retryManager.backoffStrategy
        ordered == e.initialBackoff <= e.maxBackoff /\ e.num >= 0
    IN  /\ lastOp.op = "NextBackoff" /\ ordered
           => lastOp.ret = MinFormula(e, lastOp.arg)
        /\ lastOp.op = "NextBackoff" /\ lastOp.arg = 0 => lastOp.ret = e.initialBackoff
        /\ lastOp.op = "GetBackoffDuration"
           => /\ lastOp.ret = NextBackoff(e, retryManager.retryCount)
              /\ ordered => lastOp.ret = MinFormula(e, retryManager.retryCount)

\* two multiplications by 3/2 that stay under the ceiling
C20_Witness ==
    /\ lastOp.op = "GetBackoffDuration"
    /\ retryManager.retryCount = 2
    /\ retryManager.backoffStrategy.num > retryManager.backoffStrategy.den
    /\ retryManager.backoffStrategy.initialBackoff < lastOp.ret
    /\ lastOp.ret < retryManager.backoffStrategy.maxBackoff

\* ---- PluginContext.Flush: compression failure and the write metric ----

\* C21: a Flush whose compression fails increments retryCount and sets
\* IsRetrying(), leaves the buffer content and size as they were, makes no
\* storage Write call and returns an error
C21_CompressionFailure ==
    [][lastOp'.op = "Flush" /\ lastOp'.compFailed
       => /\ GetRetryCount(retryManager') = GetRetryCount(retryManager) + 1
          /\ IsRetrying(retryManager')
          /\ GetRetryObjectKey(retryManager') = GetRetryObjectKey(retryManager)
          /\ bufferManager' = bufferManager
          /\ bufferManager'.buffer # <<>>
          /\ ~lastOp'.wrote
          /\ cycle'.keys = cycle.keys /\ cycle'.writes = cycle.writes
          /\ keyCounter' = keyCounter
          /\ lastOp'.ret = -1 /\ ~lastOp'.errNil]_vars

\* a second compression failure in a row, the records still buffered
C21_Witness ==
    /\ lastOp.op = "Flush" /\ lastOp.compFailed
    /\ retryManager.retryCount = 2
    /\ retryManager.objectKey = 0
    /\ bufferManager.buffer # <<>>

\* C30 as stated: a Flush that took a non-empty snapshot emits exactly one
\* RecordWrite, whether the write succeeded or failed or the compression
\* failed
C30_OneWriteEventAlways ==
    lastOp.op = "Flush" /\ (lastOp.wrote \/ lastOp.compFailed)
    => lastOp.recordWrite.count = 1

\* C30 amended: a Flush that reached the storage Write emits exactly one
\* RecordWrite, with success as the Write returned and the snapshot length
\* as byte count; a Flush that did not reach the Write (compression failure,
\* empty buffer, retry limit) emits none
C30_OneWriteEventPerWrite ==
    lastOp.op = "Flush"
    => IF lastOp.wrote
       THEN /\ lastOp.recordWrite.count = 1
            /\ lastOp.recordWrite.success = lastOp.errNil
            /\ lastOp.recordWrite.success = lastOp.err.nil
            /\ lastOp.recordWrite.byteCount = ByteLen(lastOp.payload)
       ELSE lastOp.recordWrite.count = 0

\* a failed write that was recorded as a failure
C30_Witness ==
    /\ lastOp.op = "Flush" /\ lastOp.wrote /\ ~lastOp.err.nil
    /\ lastOp.recordWrite = [count |-> 1, success |-> FALSE,
                              byteCount |-> ByteLen(lastOp.payload)]
    /\ lastOp.recordWrite.byteCount > 0

\* ---- PluginContext.FlushIfNeeded ----

\* C26: FlushIfNeeded invokes Flush exactly when IsFull() or ShouldFlush() or
\* IsRetrying() holds at the call, and then does what Flush does; otherwise
\* it returns (0, nil), makes no storage Write call and leaves the buffer and
\* the retry state as they were
C26_FlushIfNeeded ==
    [][lastOp'.op = "FlushIfNeeded"
       => LET trigger ==
                \/ Size(bufferManager) >= config.MaxBufferSizeBytes
                \/ /\ Size(bufferManager) # 0
                   /\ now - bufferManager.lastFlushTime >= config.FlushTimeoutSec
                \/ retryManager.isRetrying
          IN  /\ lastOp'.result = trigger
              /\ trigger
                 => \E compFails \in BOOLEAN : \E err \in WriteErrors \cup {NoError} :
                      LET res == PluginContextFlush(bufferManager, retryManager,
                                     keyCounter, cycle, compFails, err)
                      IN  /\ bufferManager' = res.b /\ retryManager' = res.r
                          /\ lastOp'.ret = res.rep.ret /\ lastOp'.wrote = res.rep.wrote
              /\ ~trigger
                 => /\ lastOp'.ret = 0 /\ lastOp'.errNil
                    /\ ~lastOp'.wrote /\ ~lastOp'.compFailed
                    /\ lastOp'.recordWrite.count = 0
                    /\ bufferManager' = bufferManager
                    /\ retryManager' = retryManager
                    /\ cycle' = cycle /\ keyCounter' = keyCounter]_vars

\* a flush triggered by the timeout alone that wrote the buffer
C26_Witness ==
    /\ lastOp.op = "FlushIfNeeded" /\ lastOp.result
    /\ lastOp.wrote /\ lastOp.errNil
    /\ ByteLen(lastOp.payload) < config.MaxBufferSizeBytes
    /\ lastOp.cycleWrites = 1

\* a FlushIfNeeded that found records in the buffer and nothing to do
C26_WitnessNoFlush ==
    /\ lastOp.op = "FlushIfNeeded" /\ ~lastOp.result
    /\ bufferManager.buffer # <<>>

\* C29: while every storage Write succeeds, a processRecord call removes no
\* buffered record by overflow truncation: every record buffered before the
\* call, and the record of the call, is in the buffer afterwards or in the
\* payload the call wrote.
C29_NoLossWhileHealthy ==
    [][lastOp'.op = "processRecord" =>
         IdsOf(bufferManager.buffer) \cup IdsOf(lastOp'.record)
             \subseteq IdsOf(bufferManager'.buffer) \cup
                       (IF lastOp'.wrote /\ lastOp'.errNil
                        THEN IdsOf(lastOp'.payload) ELSE {})]_vars


\* C25: the byte stream handed to the storage Write is the gzip compression
\* of the buffer snapshot: decompressing it yields exactly the buffer content
\* at the time of the snapshot; compressData of any input, the empty one
\* included, decompresses to that input.
C25_RoundTrip ==
    [][/\ lastOp'.op = "Flush" /\ lastOp'.wrote =>
            Gunzip(lastOp'.body) = [ok |-> TRUE, data |-> bufferManager.buffer]
       /\ lastOp'.op = "compressData" =>
            Gunzip(lastOp'.body) = [ok |-> TRUE, data |-> lastOp'.payload]]_vars

\* a Write whose body decompresses to two buffered lines
C25_Witness ==
    /\ lastOp.op = "Flush" /\ lastOp.wrote
    /\ Len(LinesOf(lastOp.payload)) >= 2
    /\ Gunzip(lastOp.body).ok
    /\ Gunzip(lastOp.body).data = lastOp.payload
    /\ lastOp.body # lastOp.payload

\* compressData of the empty input: a complete member holding no data
C25_WitnessEmpty ==
    /\ lastOp.op = "compressData"
    /\ lastOp.payload = <<>>
    /\ Gunzip(lastOp.body) = [ok |-> TRUE, data |-> <<>>]

\* C27: when the Write of a legacy flushBuffer call fails with a retryable
\* error below the retry limit (MaxRetryCount = 0 or RetryCount + 1 <
\* MaxRetryCount), the call returns an error, leaves Buffer and
\* CurrentBufferSize unchanged, adds exactly 1 to RetryCount, sets IsRetrying
\* and keeps RetryObjectKey equal to the key it used; the next flushBuffer call
\* (its compression succeeding, as gzip into memory does) writes under that
\* same key.
C27_LegacyRetryableFailure ==
    [][/\ (/\ lastOp'.op = "flushBuffer" /\ lastOp'.wrote
           /\ legacyIsRetryableError(lastOp'.err)
           /\ (legacy.MaxRetryCount = 0
                  \/ legacy.RetryCount + 1 < legacy.MaxRetryCount))
          => /\ ~lastOp'.errNil
             /\ legacy'.Buffer = legacy.Buffer
             /\ legacy'.CurrentBufferSize = legacy.CurrentBufferSize
             /\ legacy'.RetryCount = legacy.RetryCount + 1
             /\ legacy'.IsRetrying
             /\ legacy'.RetryObjectKey = lastOp'.key
       /\ (/\ lastOp.op = "flushBuffer" /\ lastOp.wrote /\ ~lastOp.errNil
           /\ legacy.IsRetrying
           /\ lastOp'.op = "flushBuffer" /\ ~lastOp'.compFailed)
          => lastOp'.wrote /\ lastOp'.key = lastOp.key]_vars

\* a second retryable failure in a row: buffer kept, key of the Write saved
C27_Witness ==
    /\ lastOp.op = "flushBuffer" /\ lastOp.wrote /\ ~lastOp.errNil
    /\ legacyIsRetryableError(lastOp.err)
    /\ legacy.IsRetrying /\ legacy.RetryCount = 2
    /\ legacy.RetryObjectKey = lastOp.key
    /\ legacy.Buffer = lastOp.payload /\ legacy.Buffer # <<>>

\* C28: a FLBPluginFlushCtx call in which a flush fails returns FLB_RETRY, and
\* when the host delivers the chunk again no record ends up in the payloads
\* of successful Writes more than once.
C28_NoDuplicateDelivery ==
    \A i, j \in 1..Len(legacy.written) :
        i # j => legacy.written[i] # legacy.written[j]

\* every record in the byte sequence is followed by its newline
WholeUnits(data) ==
    \A i \in 1..Len(data) :
        data[i].t # "nl" => i < Len(data) /\ data[i + 1].t = "nl"

\* C22: concurrent AddRecord, Flush, Reset, Size, IsFull and ShouldFlush calls
\* on one BufferManager take effect one at a time under the buffer mutex:
\* whenever the mutex is free the content is a sequence of whole record +
\* newline units and currentSize is its length, nothing changes the buffer
\* while another goroutine holds the mutex, and a finished AddRecord has done
\* exactly truncation and append on the buffer it found.
C22_AtomicOperations ==
    [][/\ mutex'.buffer = 0 =>
            /\ WholeUnits(bufferManager'.buffer)
            /\ bufferManager'.currentSize = ByteLen(bufferManager'.buffer)
       /\ \A t \in Threads :
            /\ (mutex.buffer = t /\ threads'[t] = threads[t])
                   => bufferManager' = bufferManager
            /\ (threads[t].pc = "currentSize" /\ threads'[t].pc # "currentSize")
                   => bufferManager' = AddRecord(threads[t].before, threads[t].record,
                                                config)]_vars

\* one goroutine between the two Writes of AddRecord, on a buffer that held a
\* record, while the other waits for the mutex to add or to reset
C22_Witness ==
    \E t, u \in Threads :
        /\ t # u
        /\ threads[t].pc = "WriteNewline" /\ mutex.buffer = t
        /\ threads[t].before.buffer # <<>>
        /\ threads[u].pc \in {"AddRecord", "Reset"} /\ ~threads[u].in

\* goroutine t is blocked in Lock on a mutex that goroutine u holds
Waits(t, u) ==
    /\ threads[t].pc # "idle" /\ ~threads[t].in
    /\ SiteLock(threads[t].pc) # "none"
    /\ mutex[SiteLock(threads[t].pc)] = u

\* some goroutines each wait for a mutex one of them holds
Deadlocked ==
    \E S \in SUBSET Threads :
        S # {} /\ \A t \in S : \E u \in S : Waits(t, u)

\* C23: no goroutine locks the BufferManager mutex while it holds the
\* RetryManager mutex or the metrics mutex (the overflow callback takes the
\* metrics mutex inside the buffer mutex, never the other way round), and no
\* interleaving of processRecord, ProcessRecord, AddRecord, Flush and
\* FlushIfNeeded calls deadlocks.
C23_LockOrder ==
    /\ \A t \in Threads :
          (threads[t].pc # "idle" /\ ~threads[t].in /\ SiteLock(threads[t].pc) = "buffer")
              => mutex.retry # t /\ mutex.metrics # t
    /\ ~Deadlocked

\* the overflow callback of one goroutine holds the metrics mutex inside the
\* buffer mutex while the other goroutine, inside processRecord, waits for the
\* buffer mutex
C23_Witness ==
    \E t, u \in Threads :
        /\ t # u
        /\ mutex.buffer = t /\ mutex.metrics = t
        /\ mutex.plugin = u /\ Waits(u, t)

\* C24: whatever the interleaving of ProcessRecord / AddRecord calls with a
\* Flush call, the Reset of a Flush whose Write succeeded removes from the
\* buffer only records that were in the payload of that Write: a record added
\* between the snapshot and the Reset is not lost unwritten.
C24_ResetRemovesOnlyWritten ==
    \A t \in Threads :
        (threads[t].pc = "Flush.ok.Reset" /\ threads[t].in)
            => IdsOf(bufferManager.buffer) \subseteq IdsOf(threads[t].bufferData)

\* ---- metadata line across truncations ----
\* the first line of the content is a truncation-metadata line
MetaFirst(data) == data # <<>> /\ data[1].t = "meta"

\* droppedLines of the truncation AddRecord runs on b: the valid lines evicted
\* for the size budget
DroppedBy(b, cfg) ==
    LET validLines == FilterValid(Split(b.buffer))
    IN  RetainLoop(validLines, Len(validLines),
                   [retainedLines |-> <<>>, totalSize |-> 0, droppedLines |-> 0],
                   targetSize(cfg)).droppedLines

\* the non-empty lines of b that its truncation does not keep
RemovedBy(b, cfg) ==
    LET keptLines == LinesOf(truncateByLine(b, cfg).buffer)
    IN  SelectSeq(LinesOf(b.buffer),
                  LAMBDA l : \A i \in 1..Len(keptLines) : keptLines[i] # l)

\* with AddTruncationMeta on, an AddRecord whose truncation does what
\* dropping(b, cfg) says puts a metadata line first, and from then on AddRecord
\* and Flush keep a metadata line first (only Reset ends it)
MetaStays(dropping(_, _)) ==
    config.AddTruncationMeta =>
         /\ (lastOp'.op = "AddRecord" /\ lastOp'.overflow = 1
                /\ dropping(bufferManager, config))
               => MetaFirst(bufferManager'.buffer)
         /\ (lastOp'.op = "AddRecord" /\ MetaFirst(bufferManager.buffer))
               => MetaFirst(bufferManager'.buffer)
         /\ (lastOp'.op = "BufferFlush" /\ MetaFirst(bufferManager.buffer))
               => /\ MetaFirst(lastOp'.payload)
                  /\ MetaFirst(bufferManager'.buffer)

DropsAnyLine(b, cfg) == RemovedBy(b, cfg) # <<>>

DropsValidLine(b, cfg) == DroppedBy(b, cfg) > 0

\* C31 as stated: with AddTruncationMeta on, from the first truncation that
\* drops a line, whatever line that is, until the next Reset the first line of
\* the buffer and of every flushed snapshot is a truncation-metadata line.
C31_MetaAfterAnyDrop == [][MetaStays(DropsAnyLine)]_vars

\* C31 amended: the truncation that starts it is one that evicts a valid line
\* for the size budget; from then until the next Reset the first line of the
\* buffer and of every flushed snapshot is a truncation-metadata line.
C31_MetaAfterEviction == [][MetaStays(DropsValidLine)]_vars

\* a second truncation on a buffer that already starts with a metadata line,
\* leaving a metadata line first
C31_Witness ==
    /\ config.AddTruncationMeta
    /\ lastOp.op = "AddRecord" /\ lastOp.overflow = 1
    /\ MetaFirst(Before)
    /\ MetaFirst(After)

\* ---- size coherence ----
\* C33: after every public BufferManager operation (AddRecord, also when its
\* truncation empties the buffer or finds no valid line, Flush and Reset)
\* Size() is the byte length of the content Flush() would return, so IsFull and
\* ShouldFlush decide on the real length.
C33_SizeCoherent ==
    lastOp.op \in {"AddRecord", "BufferFlush", "Reset"}
    => /\ Size(bufferManager) = ByteLen(Flush(bufferManager))
       /\ IsFull(bufferManager, config)
             <=> ByteLen(Flush(bufferManager)) >= config.MaxBufferSizeBytes
       /\ ShouldFlush(bufferManager, config)
             => ByteLen(Flush(bufferManager)) > 0

\* an AddRecord whose truncation found no valid line and emptied the buffer
\* through the early return that leaves currentSize alone
C33_Witness ==
    /\ lastOp.op = "AddRecord" /\ lastOp.overflow = 1
    /\ LinesOf(Before) # <<>> /\ ValidLinesOf(Before) = <<>>
    /\ After = lastOp.record \o <<NL>>
    /\ Size(bufferManager) = ByteLen(lastOp.record) + 1

\* ---- retry payload stability ----
\* C32: for sequential calls on one PluginContext, the uncompressed payload of
\* every storage Write of a retry cycle is the buffer snapshot of the first
\* failed attempt of that cycle, and between the retries the buffer holds
\* exactly that content whatever ProcessRecord calls arrive.
C32_RetryPayloadStable ==
    [][/\ IsRetrying(retryManager) <=> cycle.first # <<>>
       /\ (~IsRetrying(retryManager) /\ IsRetrying(retryManager'))
             => /\ cycle'.first = bufferManager.buffer
                /\ bufferManager'.buffer = cycle'.first
                /\ lastOp'.wrote => lastOp'.payload = cycle'.first
       /\ IsRetrying(retryManager)
             => /\ bufferManager.buffer = cycle.first
                /\ lastOp'.wrote => lastOp'.payload = cycle.first
                /\ lastOp'.op = "ProcessRecord" => bufferManager' = bufferManager
                /\ IsRetrying(retryManager')
                      => cycle'.first = cycle.first
                         /\ bufferManager'.buffer = cycle.first]_vars

\* a later Write of a cycle carrying the first record alone although a second
\* record was offered to ProcessRecord before it
C32_Witness ==
    /\ lastOp.op = "Flush" /\ lastOp.wrote
    /\ lastOp.cycleWrites >= 2
    /\ Len(lastOp.payload) = 2 /\ lastOp.payload[1].id = 1
    /\ nextId >= 3

\* ---- termination of a retry cycle ----
\* the cycle is over: buffer reset, not retrying, retry count 0
CycleEnded(b, r) == b.buffer = <<>> /\ ~IsRetrying(r) /\ GetRetryCount(r) = 0

\* C35: for sequential calls, every Flush on a non-empty buffer that fails
\* either ends the cycle (buffer reset, IsRetrying false, retryCount 0) or adds
\* one to retryCount, which stays within maxRetryCount + 1; a cycle makes at
\* most maxRetryCount + 1 storage Write calls, the Write that fails at the
\* limit ends it, and so does a Flush that finds the count over the limit.
C35_CycleTerminates ==
    [][(/\ lastOp'.op = "Flush" /\ bufferManager.buffer # <<>>
        /\ (~lastOp'.errNil \/ lastOp'.maxRetries = 1))
       => /\ \/ CycleEnded(bufferManager', retryManager') /\ cycle' = NoCycle
             \/ /\ GetRetryCount(retryManager') = GetRetryCount(retryManager) + 1
                /\ GetRetryCount(retryManager') <= maxRetryCount + 1
                /\ lastOp'.cycleWrites <= maxRetryCount
          /\ lastOp'.cycleWrites <= maxRetryCount + 1
          /\ (lastOp'.wrote /\ lastOp'.cycleWrites = maxRetryCount + 1)
                => CycleEnded(bufferManager', retryManager')
          /\ GetRetryCount(retryManager) > maxRetryCount
                => CycleEnded(bufferManager', retryManager') /\ ~lastOp'.wrote]_vars

\* the Write number maxRetryCount + 1 of a cycle failed with a retryable error
\* and the cycle ended
C35_Witness ==
    /\ lastOp.op = "Flush" /\ lastOp.wrote
    /\ ~lastOp.err.nil /\ isRetryableError(lastOp.err)
    /\ lastOp.cycleWrites = maxRetryCount + 1
    /\ CycleEnded(bufferManager, retryManager)

\* ---- duplicate objects ----
\* the call sites of PluginContext.Flush after storageClient.Write returned nil
WrittenSites ==
    {"Flush.ok.Reset", "Flush.ok.ResetRetry", "Flush.ok.RecordWrite", "Flush.OutputMetrics"}

\* C34: whatever the interleaving of PluginContext.Flush calls on one context,
\* two storage Writes that both succeeded under different object keys have no
\* buffered record in common in their payloads.
C34_NoDuplicateObjects ==
    \A t, u \in Threads :
        (/\ t # u
         /\ threads[t].pc \in WrittenSites /\ threads[u].pc \in WrittenSites
         /\ threads[t].objectKey # threads[u].objectKey)
            => IdsOf(threads[t].bufferData) \cap IdsOf(threads[u].bufferData) = {}

\* ---- serialization through the adapter ----
\* the call sites of PluginContext.Flush
FlushSites ==
    {"Flush.GetRetryCount", "Flush.max.Reset", "Flush.max.ResetRetry",
     "Flush.max.RecordMaxRetriesReached", "Flush.Flush", "Flush.compressData",
     "Flush.comp.IncrementRetryCount", "Flush.comp.RecordRetry", "Flush.comp.RecordError",
     "Flush.RecordCompressionRatio", "Flush.key.IsRetrying", "Flush.key.GetRetryObjectKey",
     "Flush.key.GetRetryObjectKey2", "Flush.generateObjectKey", "Flush.SetRetryObjectKey",
     "Flush.Write", "Flush.RecordError", "Flush.ShouldRetry", "Flush.IncrementRetryCount",
     "Flush.RecordRetry", "Flush.fatal.Reset", "Flush.fatal.ResetRetry",
     "Flush.err.RecordWrite", "Flush.ok.Reset", "Flush.ok.ResetRetry",
     "Flush.ok.RecordWrite", "Flush.OutputMetrics"}

\* the call sites of a Flush between its snapshot and its Reset
SnapshotSites ==
    {"Flush.compressData", "Flush.RecordCompressionRatio", "Flush.key.IsRetrying",
     "Flush.key.GetRetryObjectKey", "Flush.key.GetRetryObjectKey2",
     "Flush.generateObjectKey", "Flush.SetRetryObjectKey", "Flush.Write",
     "Flush.RecordError", "Flush.ShouldRetry", "Flush.fatal.Reset", "Flush.ok.Reset"}

\* goroutine t is inside processRecord or FlushPlugin, past the Lock
InsideAdapter(t) ==
    /\ threads[t].pc # "idle"
    /\ ~(threads[t].pc \in PluginSites /\ ~threads[t].in)

\* C36: processRecord and FlushPlugin hold the plugin mutex from entry to
\* return, so whatever the concurrent callers of the adapter do, at most one
\* goroutine is inside the PluginContext, two Flush executions never overlap,
\* and between the snapshot of a Flush and its Reset the buffer holds exactly
\* the snapshot (no AddRecord in between).
C36_Serialized ==
    /\ \A t \in Threads :
          /\ InsideAdapter(t) => mutex.plugin = t
          /\ threads[t].pc \in SnapshotSites
                => bufferManager.buffer = threads[t].bufferData
    /\ Cardinality({t \in Threads : InsideAdapter(t)}) <= 1
    /\ Cardinality({t \in Threads : threads[t].pc \in FlushSites}) <= 1

\* one goroutine is inside the Flush of processRecord, after a successful Write
\* and before the Reset, while the other waits in the Lock of processRecord
\* with a record to add
C36_Witness ==
    \E t, u \in Threads :
        /\ t # u
        /\ threads[t].op = "processRecord" /\ threads[t].pc = "Flush.ok.Reset"
        /\ threads[u].op = "processRecord" /\ threads[u].pc = "processRecord.Lock"
        /\ ~threads[u].in /\ mutex.plugin = t

\* a FlushPlugin inside its final Flush while a processRecord waits
C36_WitnessFlushPlugin ==
    \E t, u \in Threads :
        /\ t # u
        /\ threads[t].op = "FlushPlugin" /\ threads[t].pc = "Flush.Write"
        /\ threads[u].op = "processRecord" /\ threads[u].pc = "processRecord.Lock"
        /\ ~threads[u].in /\ mutex.plugin = t

====
